---- MODULE Spec2Model ----
(***************************************************************************)
(* The simulation kernel of charging_robots_simulation.py: the event loop  *)
(* of ChargingSimulation.run, its handlers, the per-tick updater and the   *)
(* dispatch policies, as a state machine with one action per event kind.   *)
(*                                                                         *)
(* Numbers.  The code computes with floats; the model computes the same    *)
(* quantities exactly.  Energies are integers in units of 1/4000 kWh, in   *)
(* which every rate of the code (0.005, 0.04, 0.8, 1.0, 1.5, 1.8, 2.0,     *)
(* 2.5 kWh per minute) and every efficiency 0.95, 1.00, 1.05 applied to a  *)
(* transfer is an integer.  Times are minutes; a duration that is a        *)
(* fraction of a minute is kept as a numerator over a fixed denominator.   *)
(*                                                                         *)
(* Geometry.  Positions are points <<x, y>> of the park.  The robots and   *)
(* vehicles of the model live on the line x = 900, which holds the         *)
(* stations (900,100) and (900,900); on that line Euclidean distance is    *)
(* |dy|, a robot moving at 8 m/min stays on integer points, and no station *)
(* off the line is nearer than the nearer of those two.                    *)
(***************************************************************************)
EXTENDS Integers, Sequences, FiniteSets, TLC

VARIABLES
    current_time,          \* self.current_time
    events,                \* self.events: the list heapq keeps as a binary heap
    vehicles,              \* every generated Vehicle, by id (arrived or still in its arrival event)
    arrived,               \* self.vehicles: ids of the vehicles whose arrival was handled
    waiting_vehicles,      \* self.waiting_vehicles: sequence of vehicle ids
    robots,                \* self.robots, by id
    batteries,             \* self.batteries, by id
    completed_vehicles,    \* self.completed_vehicles: sequence of vehicle ids
    failed_vehicles,       \* self.failed_vehicles: sequence of vehicle ids
    stats,                 \* self.stats
    last_assignment_time,  \* self.last_assignment_time
    assignment_cache,      \* len(self.assignment_cache.get('waiting_vehicles', []))
    scheduling_strategy,   \* self.scheduling_strategy
    scale,                 \* the scale name handed to ChargingSimulation.__init__
    efficiency_stream,     \* the values random.uniform(0.95, 1.05) returns in this run
    action_stream,         \* the values get_action draws to choose a vehicle in this run
    minute,                \* generate_vehicle_arrivals: the loop variable "minute"
    vehicles_per_minute,   \* generate_vehicle_arrivals: the rate of that minute, as
                           \* <<n, d>> for vehicles_per_hour * n / d
    training_episodes,     \* RLChargingSimulation.training_episodes
    epsilon,               \* RLRobotScheduler.epsilon, as [num, den] of factors
    q_table,               \* RLRobotScheduler.q_table, as the set of its entries
                           \* [state, action, q], q in millionths
    q_rewards,             \* the rewards the latest assign_rl_tasks passed to
                           \* update_q_table, in millionths, in the order of the calls
    phase                  \* "running" inside the loop of run(), "done" after it,
                           \* "aborted" when __init__ raised, "rating" and "rated"
                           \* around one pass of the generator's loop

vars == <<current_time, events, vehicles, arrived, waiting_vehicles, robots, batteries,
          completed_vehicles, failed_vehicles, stats, last_assignment_time,
          assignment_cache, scheduling_strategy, scale, efficiency_stream,
          action_stream, minute, vehicles_per_minute, training_episodes, epsilon,
          q_table, q_rewards,
          phase>>

\* ------------------------------------------------------------------ bounds

\* The horizon of run(): 300 * 60 in the source, shortened here.
MAX_SIM_TIME == 63
\* PROBLEM_SCALES[scale]["robots_count"], scaled down.
RobotsCount == 2
\* PROBLEM_SCALES[scale]["batteries_count"], scaled down.
BatteriesCount == 4
\* The number of vehicles generate_vehicle_arrivals draws.
VehiclesCount == 2
\* The number of times run() is called on one RLChargingSimulation.
MaxEpisodes == 115
\* The minutes generate_vehicle_arrivals loops over: two days (2 * 24 * 60) of
\* the 300 * 60.
MaxMinute == 2880

\* ------------------------------------------------------- program constants

None == -1
PARK_WIDTH == 1000
PARK_HEIGHT == 1000
CHARGING_STATION_POS == <<50, 50>>
CHARGING_STATIONS ==
    << CHARGING_STATION_POS,
       <<PARK_WIDTH - 100, 100>>,
       <<100, PARK_HEIGHT - 100>>,
       <<PARK_WIDTH - 100, PARK_HEIGHT - 100>>,
       <<PARK_WIDTH \div 2, PARK_HEIGHT \div 2>> >>

KWh(x) == x * 4000

\* Battery.max_capacity, 60.0 kWh
MaxCapacity == 240000
\* Robot.speed, metres per minute
Speed == 8
\* Robot.battery_consumption_rate, 0.04 kWh per minute
BatteryConsumptionRate == 160
\* Robot.idle_consumption_rate, 0.005 kWh per minute
IdleConsumptionRate == 20

RobotIds == 0 .. RobotsCount - 1
BatteryIds == 0 .. BatteriesCount - 1
VehicleIds == 0 .. VehiclesCount - 1

Strategies == {"nearest_first", "max_charge_need_first", "earliest_deadline_first",
               "most_urgent_first", "hybrid_strategy", "rl"}

\* The keys of PROBLEM_SCALES; the model has one, "small", whose robots_count
\* and batteries_count are RobotsCount and BatteriesCount.
PROBLEM_SCALES == {"small"}

\* What a caller may hand to __init__: the known names, and one name that
\* neither PROBLEM_SCALES nor assign_tasks knows.
ScaleNames == PROBLEM_SCALES \cup {"no_such_scale"}
StrategyNames == Strategies \cup {"no_such_policy"}

\* random.uniform(0.95, 1.05), in percent: the two ends of the range.
Efficiencies == {95, 105}

\* ------------------------------------------------------------- arithmetic

Abs(x) == IF x < 0 THEN 0 - x ELSE x
Min(a, b) == IF a <= b THEN a ELSE b
Max(a, b) == IF a >= b THEN a ELSE b

\* a/b < c/d for a, c >= 0 and b, d > 0, by continued fractions (no product is formed).
RECURSIVE FracLess(_, _, _, _)
FracLess(a, b, c, d) ==
    LET qa == a \div b
        qc == c \div d
        ra == a % b
        rc == c % d
    IN  IF qa # qc THEN qa < qc
        ELSE IF rc = 0 THEN FALSE
        ELSE IF ra = 0 THEN TRUE
        ELSE FracLess(d, rc, b, ra)

\* list.sort with a strict order lt[<<x, y>>]: stable, as Python's sort is.
RECURSIVE InsertSorted(_, _, _)
InsertSorted(x, sorted, lt) ==
    IF sorted = << >> THEN <<x>>
    ELSE LET n == Len(sorted)
         IN  IF lt[<<x, sorted[n]>>]
             THEN Append(InsertSorted(x, SubSeq(sorted, 1, n - 1), lt), sorted[n])
             ELSE Append(sorted, x)

RECURSIVE StableSortFrom(_, _, _, _)
StableSortFrom(seq, i, acc, lt) ==
    IF i > Len(seq) THEN acc
    ELSE StableSortFrom(seq, i + 1, InsertSorted(seq[i], acc, lt), lt)

StableSort(seq, lt) == StableSortFrom(seq, 1, << >>, lt)

SeqToSet(seq) == {seq[i] : i \in 1 .. Len(seq)}
Contains(seq, x) == \E i \in 1 .. Len(seq) : seq[i] = x

\* list.remove(x): drops the first occurrence of x.
RECURSIVE Remove(_, _)
Remove(seq, x) ==
    IF seq = << >> THEN << >>
    ELSE IF Head(seq) = x THEN Tail(seq)
    ELSE <<Head(seq)>> \o Remove(Tail(seq), x)

\* ----------------------------------------------------------------- Vehicle

\* Vehicle.charge_speed, units per minute.
charge_speed(charge_level) ==
    IF charge_level < KWh(50) THEN 10000
    ELSE IF charge_level < KWh(80) THEN 7200
    ELSE 3200

\* Vehicle.needed_charge_time, in 1/720000 of a minute: energy e charged at
\* 2.5, 1.8, 0.8 kWh/min takes 72e, 100e, 225e of these.
needed_charge_time(v) ==
    IF v.required_charge - v.current_charge <= 0 THEN 0
    ELSE LET cur == v.current_charge
             req == v.required_charge
             first == cur < KWh(50) /\ req > KWh(50)
             t1 == IF first THEN 72 * (KWh(50) - cur) ELSE 0
             c1 == IF first THEN KWh(50) ELSE cur
             second == c1 < KWh(80) /\ req > KWh(80)
             t2 == IF second THEN 100 * (KWh(80) - Max(c1, KWh(50))) ELSE 0
             c2 == IF second THEN KWh(80) ELSE c1
             t3 == IF req > KWh(80) THEN 225 * (req - Max(c2, KWh(80))) ELSE 0
         IN  t1 + t2 + t3

\* Minutes as 1/720000 of a minute.
Minutes(m) == m * 720000

\* Vehicle.update_priority: the priority as <<numerator, denominator>>,
\* (need / urgency) * factor + waiting / 60 with need in kWh.
update_priority(v, t) ==
    LET time_urgency == Max(1, v.departure_time - t)
        charge_needed == Max(0, v.required_charge - v.current_charge)
        waiting_time == t - v.arrival_time
        urgency_factor == IF time_urgency < 30 THEN 10 ELSE 1
    IN  <<charge_needed * urgency_factor * 3 + waiting_time * time_urgency * 200,
          12000 * time_urgency>>

PriorityLess(p, q) == FracLess(p[1], p[2], q[1], q[2])
PriorityEqual(p, q) == ~PriorityLess(p, q) /\ ~PriorityLess(q, p)

\* Vehicle.__lt__ on ids a, b of the table vs.
VehicleLt(vs, a, b) ==
    IF PriorityEqual(vs[a].priority, vs[b].priority) THEN a < b
    ELSE PriorityLess(vs[b].priority, vs[a].priority)

\* ------------------------------------------------------------------ Battery

\* Battery.charge(1): the new charge; it charges only below max_capacity.
battery_charge(c) ==
    IF c < MaxCapacity
    THEN LET speed == IF 2 * c < MaxCapacity THEN 8000
                      ELSE IF 10 * c < 8 * MaxCapacity THEN 6000
                      ELSE 4000
         IN  Min(MaxCapacity, c + speed)
    ELSE c

\* ------------------------------------------------------------------- Robot

DistSq(p, q) == (p[1] - q[1]) * (p[1] - q[1]) + (p[2] - q[2]) * (p[2] - q[2])

\* Robot.distance_to, for two points of one axis-parallel line (all that the
\* robots and vehicles of the model ever ask for).
distance_to(p, q) ==
    CASE p[1] = q[1] -> Abs(p[2] - q[2])
      [] p[2] = q[2] -> Abs(p[1] - q[1])

\* Robot.find_nearest_charging_station: the first station of the list among the nearest.
find_nearest_charging_station(p) ==
    LET n == Len(CHARGING_STATIONS)
        i == CHOOSE i \in 1 .. n :
                /\ \A j \in 1 .. n :
                      DistSq(p, CHARGING_STATIONS[i]) <= DistSq(p, CHARGING_STATIONS[j])
                /\ \A j \in 1 .. i - 1 :
                      DistSq(p, CHARGING_STATIONS[j]) > DistSq(p, CHARGING_STATIONS[i])
    IN  CHARGING_STATIONS[i]

IsStation(p) == \E i \in 1 .. Len(CHARGING_STATIONS) : CHARGING_STATIONS[i] = p

\* Robot.battery_needed_for_trip(position, False): (distance / speed) * rate, in units.
battery_needed_for_trip(p, position) ==
    (distance_to(p, position) * BatteryConsumptionRate) \div Speed

\* Robot.move_towards(position, 1): whether the robot is at `position` afterwards.
Arrives(p, position) == p = position \/ distance_to(p, position) <= Speed

\* Robot.move_towards(position, 1): the robot's new position.
MovedPosition(p, position) ==
    IF Arrives(p, position) THEN position
    ELSE IF p[1] = position[1]
         THEN <<p[1], IF position[2] > p[2] THEN p[2] + Speed ELSE p[2] - Speed>>
         ELSE <<IF position[1] > p[1] THEN p[1] + Speed ELSE p[1] - Speed, p[2]>>

\* Robot.move_towards(position, 1) on the tables of S: no move and no debit when
\* the robot is already there; otherwise a full minute of moving energy is debited
\* from the held battery, which travels with the robot.
move_towards(S, r, position) ==
    LET rb == S.robots[r]
        np == MovedPosition(rb.position, position)
    IN  IF rb.position = position THEN S
        ELSE [S EXCEPT
                 !.robots[r].position = np,
                 !.batteries = IF rb.battery = None THEN @
                               ELSE [@ EXCEPT
                                       ![rb.battery].current_charge = @ - BatteryConsumptionRate,
                                       ![rb.battery].location = np]]

\* assign_battery that forgets "battery.assigned_robot = self".
AssignBatteryWithoutOwner(S, r, b) ==
    [S EXCEPT !.robots[r].battery = b,
              !.batteries[b].status = "in-use",
              !.batteries[b].location = S.robots[r].position]

\* Robot.assign_battery
assign_battery(S, r, b) ==
    [S EXCEPT !.robots[r].battery = b,
              !.batteries[b].status = "in-use",
              !.batteries[b].assigned_robot = r,
              !.batteries[b].location = S.robots[r].position]

\* ----------------------------------------------------------------- handlers
\* A handler works on a record S of the simulator's tables:
\* robots, batteries, vehicles, waiting, completed, stats.

\* The completion that leaves total_waiting_time as it is.
MarkCompletedUntimed(S, v, t) ==
    LET veh == S.vehicles[v]
        timed == veh.charging_start_time # None
    IN  [S EXCEPT
            !.vehicles[v].status = "completed",
            !.vehicles[v].charging_end_time = t,
            !.completed = Append(@, v),
            !.stats.completed_count = @ + 1,
            !.stats.total_charging_time =
                IF timed THEN @ + (t - veh.charging_start_time) ELSE @]

\* The body of "if vehicle.current_charge >= vehicle.required_charge" in
\* handle_task_completion: the vehicle is completed and counted.
MarkCompleted(S, v, t) ==
    LET veh == S.vehicles[v]
        timed == veh.charging_start_time # None
    IN  [S EXCEPT
            !.vehicles[v].status = "completed",
            !.vehicles[v].charging_end_time = t,
            !.completed = Append(@, v),
            !.stats.completed_count = @ + 1,
            !.stats.total_waiting_time =
                IF timed THEN @ + (veh.charging_start_time - veh.arrival_time) ELSE @,
            !.stats.total_charging_time =
                IF timed THEN @ + (t - veh.charging_start_time) ELSE @]

\* handle_task_completion without "vehicle.assigned_robot = None".
HandleTaskCompletionKeepsRobot(S, r, t, strategy) ==
    LET v == S.robots[r].target_vehicle
    IN  IF v = None \/ S.vehicles[v].status = "failed"
        THEN [S EXCEPT !.robots[r].status = "returning",
                       !.robots[r].target_vehicle = None]
        ELSE LET veh == S.vehicles[v]
                 S1 == IF veh.current_charge >= veh.required_charge
                       THEN MarkCompleted(S, v, t)
                       ELSE S
             IN  [S1 EXCEPT !.robots[r].status = "returning",
                            !.robots[r].target_vehicle = None]

\* ChargingSimulation.handle_task_completion(robot), and its override in
\* RLChargingSimulation (strategy "rl"), which leaves out the forced retreat.
handle_task_completion(S, r, t, strategy) ==
    LET v == S.robots[r].target_vehicle
    IN  IF v = None \/ S.vehicles[v].status = "failed"
        THEN [S EXCEPT !.robots[r].status = "returning",
                       !.robots[r].target_vehicle = None]
        ELSE LET veh == S.vehicles[v]
                 S1 == IF veh.current_charge >= veh.required_charge
                       THEN MarkCompleted(S, v, t)
                       ELSE S
                 S2 == [S1 EXCEPT !.robots[r].status = "returning",
                                  !.robots[r].target_vehicle = None,
                                  !.vehicles[v].assigned_robot = None]
                 b == S2.robots[r].battery
             IN  IF /\ strategy # "rl"
                    /\ b # None
                    /\ S2.batteries[b].current_charge < KWh(10)
                 THEN [S2 EXCEPT !.robots[r].position =
                                     find_nearest_charging_station(S2.robots[r].position)]
                 ELSE S2

\* The batteries a robot at position p can take: status available, located at p,
\* with more than `above` units of charge.
AvailableBatteries(S, p, above) ==
    {b \in BatteryIds : /\ S.batteries[b].status = "available"
                        /\ S.batteries[b].location = p
                        /\ S.batteries[b].current_charge > above}

\* available_batteries[0]: the first of them in self.batteries.
FirstOf(ids) == CHOOSE b \in ids : \A c \in ids : b <= c

\* update_status, robot without a battery: take an available battery lying here.
TakeBattery(S, r) ==
    LET avail == AvailableBatteries(S, S.robots[r].position, 0 - 1)
    IN  IF avail # {} THEN assign_battery(S, r, FirstOf(avail)) ELSE S

\* The battery-below-10 branch without "robot.status = idle" when the station
\* has no battery to give.
LowBatteryKeepsStatus(S, r) ==
    LET rb == S.robots[r]
        old == rb.battery
    IN  IF IsStation(rb.position)
        THEN LET S1 == [S EXCEPT !.batteries[old].status = "charging",
                                 !.batteries[old].assigned_robot = None,
                                 !.batteries[old].location = rb.position,
                                 !.robots[r].battery = None]
                 avail == AvailableBatteries(S1, rb.position, KWh(45))
             IN  IF avail # {}
                 THEN [assign_battery(S1, r, FirstOf(avail))
                          EXCEPT !.stats.battery_swaps = @ + 1]
                 ELSE S1
        ELSE move_towards([S EXCEPT !.robots[r].status = "returning",
                                    !.robots[r].target_vehicle = None],
                          r, find_nearest_charging_station(rb.position))

\* The battery-below-10 branch without "self.stats[battery_swaps] += 1".
LowBatterySwapUncounted(S, r) ==
    LET rb == S.robots[r]
        old == rb.battery
    IN  IF IsStation(rb.position)
        THEN LET S1 == [S EXCEPT !.batteries[old].status = "charging",
                                 !.batteries[old].assigned_robot = None,
                                 !.batteries[old].location = rb.position,
                                 !.robots[r].battery = None]
                 avail == AvailableBatteries(S1, rb.position, KWh(45))
             IN  IF avail # {}
                 THEN assign_battery(S1, r, FirstOf(avail))
                 ELSE [S1 EXCEPT !.robots[r].status = "idle"]
        ELSE move_towards([S EXCEPT !.robots[r].status = "returning",
                                    !.robots[r].target_vehicle = None],
                          r, find_nearest_charging_station(rb.position))

\* update_status, battery below 10 kWh: at a station the battery is left to
\* charge and a battery above 45 kWh is taken if one lies there; elsewhere the
\* robot drops its target and moves one tick toward the nearest station.
LowBattery(S, r) ==
    LET rb == S.robots[r]
        old == rb.battery
    IN  IF IsStation(rb.position)
        THEN LET S1 == [S EXCEPT !.batteries[old].status = "charging",
                                 !.batteries[old].assigned_robot = None,
                                 !.batteries[old].location = rb.position,
                                 !.robots[r].battery = None]
                 avail == AvailableBatteries(S1, rb.position, KWh(45))
             IN  IF avail # {}
                 THEN [assign_battery(S1, r, FirstOf(avail))
                          EXCEPT !.stats.battery_swaps = @ + 1]
                 ELSE [S1 EXCEPT !.robots[r].status = "idle"]
        ELSE move_towards([S EXCEPT !.robots[r].status = "returning",
                                    !.robots[r].target_vehicle = None],
                          r, find_nearest_charging_station(rb.position))

\* update_status: "robot.status = returning; robot.target_vehicle = None" when the
\* target is gone, completed or failed.
DropTarget(S, r) ==
    [S EXCEPT !.robots[r].status = "returning", !.robots[r].target_vehicle = None]

TargetGone(S, r) ==
    LET v == S.robots[r].target_vehicle
    IN  v = None \/ S.vehicles[v].status \in {"completed", "failed"}

\* update_status, the two abandon branches of charging_vehicle (battery < 8,
\* max_transfer <= 0): the vehicle goes back to waiting and into the queue.
Abandon(S, r) ==
    LET v == S.robots[r].target_vehicle
    IN  [S EXCEPT !.robots[r].status = "returning",
                  !.robots[r].target_vehicle = None,
                  !.vehicles[v].status = "waiting",
                  !.vehicles[v].assigned_robot = None,
                  !.waiting = Append(@, v)]

\* The moving_to_vehicle branch that forgets "robot.target_vehicle.status = charging".
MovingToVehicleKeepsAssigned(S, r, t) ==
    IF TargetGone(S, r) THEN DropTarget(S, r)
    ELSE LET v == S.robots[r].target_vehicle
             target == S.vehicles[v].position
             S1 == move_towards(S, r, target)
         IN  IF Arrives(S.robots[r].position, target)
             THEN [S1 EXCEPT !.robots[r].status = "charging_vehicle",
                             !.vehicles[v].charging_start_time = t]
             ELSE S1

\* update_status, status moving_to_vehicle.
MovingToVehicle(S, r, t) ==
    IF TargetGone(S, r) THEN DropTarget(S, r)
    ELSE LET v == S.robots[r].target_vehicle
             target == S.vehicles[v].position
             S1 == move_towards(S, r, target)
         IN  IF Arrives(S.robots[r].position, target)
             THEN [S1 EXCEPT !.robots[r].status = "charging_vehicle",
                             !.vehicles[v].status = "charging",
                             !.vehicles[v].charging_start_time = t]
             ELSE S1

\* The charging_vehicle branch that takes 95% of the required charge for done,
\* as the battery loop does for a battery, and completes the vehicle itself.
ChargingVehicleNearlyCharged(S, r, t, eff, strategy) ==
    IF TargetGone(S, r) THEN DropTarget(S, r)
    ELSE LET v == S.robots[r].target_vehicle
             b == S.robots[r].battery
             charge == S.batteries[b].current_charge
             max_transfer == Min(charge_speed(S.vehicles[v].current_charge),
                                 charge - KWh(8))
         IN  IF charge < KWh(8) THEN Abandon(S, r)
             ELSE IF max_transfer <= 0 THEN Abandon(S, r)
             ELSE LET actual_transfer == (max_transfer * eff) \div 100
                      S1 == [S EXCEPT
                               !.vehicles[v].current_charge = @ + actual_transfer,
                               !.batteries[b].current_charge = @ - max_transfer]
                  IN  IF 100 * S1.vehicles[v].current_charge
                            >= 95 * S1.vehicles[v].required_charge
                      THEN [MarkCompleted(S1, v, t)
                               EXCEPT !.robots[r].status = "returning",
                                      !.robots[r].target_vehicle = None,
                                      !.vehicles[v].assigned_robot = None]
                      ELSE S1

\* The charging_vehicle branch with the transfer taken from the vehicle.
ChargingVehicleDrains(S, r, t, eff, strategy) ==
    IF TargetGone(S, r) THEN DropTarget(S, r)
    ELSE LET v == S.robots[r].target_vehicle
             b == S.robots[r].battery
             charge == S.batteries[b].current_charge
             max_transfer == Min(charge_speed(S.vehicles[v].current_charge),
                                 charge - KWh(8))
         IN  IF charge < KWh(8) THEN Abandon(S, r)
             ELSE IF max_transfer <= 0 THEN Abandon(S, r)
             ELSE LET actual_transfer == (max_transfer * eff) \div 100
                      S1 == [S EXCEPT
                               !.vehicles[v].current_charge = @ - actual_transfer,
                               !.batteries[b].current_charge = @ - max_transfer]
                  IN  IF S1.vehicles[v].current_charge >= S1.vehicles[v].required_charge
                      THEN handle_task_completion(
                               [S1 EXCEPT !.vehicles[v].charging_end_time = t],
                               r, t, strategy)
                      ELSE S1

\* update_status, status charging_vehicle; eff is the efficiency drawn, in percent.
ChargingVehicle(S, r, t, eff, strategy) ==
    IF TargetGone(S, r) THEN DropTarget(S, r)
    ELSE LET v == S.robots[r].target_vehicle
             b == S.robots[r].battery
             charge == S.batteries[b].current_charge
             max_transfer == Min(charge_speed(S.vehicles[v].current_charge),
                                 charge - KWh(8))
         IN  IF charge < KWh(8) THEN Abandon(S, r)
             ELSE IF max_transfer <= 0 THEN Abandon(S, r)
             ELSE LET actual_transfer == (max_transfer * eff) \div 100
                      S1 == [S EXCEPT
                               !.vehicles[v].current_charge = @ + actual_transfer,
                               !.batteries[b].current_charge = @ - max_transfer]
                  IN  IF S1.vehicles[v].current_charge >= S1.vehicles[v].required_charge
                      THEN handle_task_completion(
                               [S1 EXCEPT !.vehicles[v].charging_end_time = t],
                               r, t, strategy)
                      ELSE S1

\* The returning branch that moves the robot and never turns it idle.
ReturningKeepsStatus(S, r) ==
    move_towards(S, r, find_nearest_charging_station(S.robots[r].position))

\* The returning branch that turns the robot idle after one move, arrived or not.
ReturningIdlesAtOnce(S, r) ==
    LET station == find_nearest_charging_station(S.robots[r].position)
        S1 == move_towards(S, r, station)
    IN  [S1 EXCEPT !.robots[r].status = "idle"]

\* update_status, status returning.
Returning(S, r) ==
    LET station == find_nearest_charging_station(S.robots[r].position)
        S1 == move_towards(S, r, station)
    IN  IF Arrives(S.robots[r].position, station)
        THEN [S1 EXCEPT !.robots[r].status = "idle"]
        ELSE S1

\* The robot loop body without the test "robot.battery.current_charge < 10".
RobotTickUnchecked(S, r, t, eff, strategy) ==
    LET rb == S.robots[r]
    IN  IF rb.battery = None THEN TakeBattery(S, r)
        ELSE CASE rb.status = "idle" ->
                    [S EXCEPT !.batteries[rb.battery].current_charge =
                                  @ - IdleConsumptionRate]
               [] rb.status = "moving_to_vehicle" -> MovingToVehicle(S, r, t)
               [] rb.status = "charging_vehicle" ->
                    ChargingVehicle(S, r, t, eff[r], strategy)
               [] rb.status = "returning" -> Returning(S, r)
               [] OTHER -> S

\* update_status: the body of "for robot in self.robots".
RobotTick(S, r, t, eff, strategy) ==
    LET rb == S.robots[r]
    IN  IF rb.battery = None THEN TakeBattery(S, r)
        ELSE IF S.batteries[rb.battery].current_charge < KWh(10) THEN LowBattery(S, r)
        ELSE CASE rb.status = "idle" ->
                    [S EXCEPT !.batteries[rb.battery].current_charge =
                                  @ - IdleConsumptionRate]
               [] rb.status = "moving_to_vehicle" -> MovingToVehicle(S, r, t)
               [] rb.status = "charging_vehicle" ->
                    ChargingVehicle(S, r, t, eff[r], strategy)
               [] rb.status = "returning" -> Returning(S, r)
               [] OTHER -> S

RECURSIVE RobotsLoop(_, _, _, _, _)
RobotsLoop(S, r, t, eff, strategy) ==
    IF r >= RobotsCount THEN S
    ELSE RobotsLoop(RobotTick(S, r, t, eff, strategy), r + 1, t, eff, strategy)

\* ChargingSimulation.handle_battery_charged
handle_battery_charged(bat) ==
    IF bat.current_charge >= MaxCapacity
    THEN [bat EXCEPT !.current_charge = MaxCapacity, !.status = "available"]
    ELSE bat

\* The battery loop body that leaves a charging battery as it is.
BatteryTickSkips(bat) == bat

\* update_status: the body of "for battery in self.batteries".
BatteryTick(bat) ==
    IF bat.status = "charging" /\ IsStation(bat.location)
    THEN LET was_charging == bat.current_charge < MaxCapacity
             charged == [bat EXCEPT !.current_charge = battery_charge(@)]
         IN  IF was_charging /\ 100 * charged.current_charge >= 95 * MaxCapacity
             THEN handle_battery_charged(charged)
             ELSE charged
    ELSE bat

\* ChargingSimulation.update_status
update_status(S, t, eff, strategy) ==
    LET S1 == RobotsLoop(S, 0, t, eff, strategy)
    IN  [S1 EXCEPT !.batteries = [b \in BatteryIds |-> BatteryTick(S1.batteries[b])]]

\* ---------------------------------------------------------------- dispatch

\* "r.status == idle and r.battery and r.battery.current_charge > 15", in
\* the order of self.robots.
IsIdleRobot(S, r) ==
    /\ S.robots[r].status = "idle"
    /\ S.robots[r].battery # None
    /\ S.batteries[S.robots[r].battery].current_charge > KWh(15)

RECURSIVE IdleRobotsFrom(_, _)
IdleRobotsFrom(S, r) ==
    IF r >= RobotsCount THEN << >>
    ELSE (IF IsIdleRobot(S, r) THEN <<r>> ELSE << >>) \o IdleRobotsFrom(S, r + 1)

IdleRobots(S) == IdleRobotsFrom(S, 0)

\* The time check without the travel term: charge_time alone against the departure.
TimeFeasibleWithoutTravel(S, r, v, t) ==
    ~(Minutes(t) + needed_charge_time(S.vehicles[v])
         > Minutes(S.vehicles[v].departure_time))

\* "self.current_time + travel_time + charge_time > vehicle.departure_time" is
\* false; travel_time = distance / speed, all in 1/720000 of a minute.
TimeFeasible(S, r, v, t) ==
    LET travel_time ==
            (Minutes(1) \div Speed) * distance_to(S.robots[r].position, S.vehicles[v].position)
    IN  ~(Minutes(t) + travel_time + needed_charge_time(S.vehicles[v])
             > Minutes(S.vehicles[v].departure_time))

\* Twice total_energy_needed = trip_to_vehicle + 0.5 * charge_need + trip_back.
TwiceEnergyNeeded(S, r, v) ==
    LET p == S.robots[r].position
        trip_to_vehicle == battery_needed_for_trip(p, S.vehicles[v].position)
        charge_need == S.vehicles[v].required_charge - S.vehicles[v].current_charge
        trip_back == battery_needed_for_trip(p, find_nearest_charging_station(p))
    IN  2 * trip_to_vehicle + charge_need + 2 * trip_back

\* "robot.battery.current_charge > total_energy_needed * 1.3"
EnergyFeasible(S, r, v) ==
    /\ S.robots[r].battery # None
    /\ 20 * S.batteries[S.robots[r].battery].current_charge > 13 * TwiceEnergyNeeded(S, r, v)

\* The hybrid policy's check, "current_charge <= total * safety_margin" false,
\* with safety_margin = max(1.2, min(1.5, 1.5 - charge / 60)) = m / 240000.
HybridEnergyFeasible(S, r, v) ==
    LET charge == S.batteries[S.robots[r].battery].current_charge
        m == Max(288000, Min(360000, 360000 - charge))
    IN  FracLess(TwiceEnergyNeeded(S, r, v), 480000, charge, m)

\* The assignment without "waiting_vehicles.remove(vehicle)".
AssignKeepsWaiting(S, r, v) ==
    [S EXCEPT !.robots[r].status = "moving_to_vehicle",
              !.robots[r].target_vehicle = v,
              !.vehicles[v].assigned_robot = r,
              !.vehicles[v].status = "assigned"]

\* The assignment every policy makes once the checks pass.
Assign(S, r, v) ==
    [S EXCEPT !.robots[r].status = "moving_to_vehicle",
              !.robots[r].target_vehicle = v,
              !.vehicles[v].assigned_robot = r,
              !.vehicles[v].status = "assigned",
              !.waiting = Remove(@, v)]

\* sort(key=distance) of ids by their distance to the point p.
ByDistance(seq, posOf, p) ==
    StableSort(seq, [xy \in SeqToSet(seq) \X SeqToSet(seq) |->
                        distance_to(posOf[xy[1]], p) < distance_to(posOf[xy[2]], p)])

RobotPositions(S) == [r \in RobotIds |-> S.robots[r].position]
VehiclePositionsOf(S) == [v \in VehicleIds |-> S.vehicles[v].position]

\* The first element of seq from index i on that satisfies ok[x], or None.
RECURSIVE FirstWhere(_, _, _)
FirstWhere(seq, i, ok) ==
    IF i > Len(seq) THEN None
    ELSE IF ok[seq[i]] THEN seq[i]
    ELSE FirstWhere(seq, i + 1, ok)

\* The inner loop "for robot, distance in robot_distances": the nearest robot of
\* `idle` that passes the time check and the energy check, or None.
NearestFeasibleRobot(S, v, t, idle) ==
    FirstWhere(ByDistance(idle, RobotPositions(S), S.vehicles[v].position), 1,
               [r \in RobotIds |-> TimeFeasible(S, r, v, t) /\ EnergyFeasible(S, r, v)])

\* assign_emergency_task without "robot_distances.sort": the first idle robot
\* in the order of self.robots that passes the checks.
AssignEmergencyUnsorted(S, v, t) ==
    LET r == FirstWhere(IdleRobots(S), 1,
                        [q \in RobotIds |-> TimeFeasible(S, q, v, t) /\ EnergyFeasible(S, q, v)])
    IN  IF r = None THEN S ELSE Assign(S, r, v)

\* ChargingSimulation.assign_emergency_task
assign_emergency_task(S, v, t) ==
    LET r == NearestFeasibleRobot(S, v, t, IdleRobots(S))
    IN  IF r = None THEN S ELSE Assign(S, r, v)

\* ChargingSimulation.assign_nearest_first: "for robot in idle_robots".
RECURSIVE assign_nearest_first(_, _, _, _)
assign_nearest_first(S, t, idle, i) ==
    IF i > Len(idle) \/ S.waiting = << >> THEN S
    ELSE LET r == idle[i]
             v == FirstWhere(
                      ByDistance(S.waiting, VehiclePositionsOf(S), S.robots[r].position), 1,
                      [w \in VehicleIds |-> TimeFeasible(S, r, w, t) /\ EnergyFeasible(S, r, w)])
         IN  assign_nearest_first(IF v = None THEN S ELSE Assign(S, r, v), t, idle, i + 1)

\* The loop shared by max_charge_need_first, earliest_deadline_first and
\* most_urgent_first: "for vehicle in sorted_vehicles" over the remaining idle robots.
RECURSIVE AssignInOrder(_, _, _, _, _)
AssignInOrder(S, t, sorted, i, idle) ==
    IF i > Len(sorted) \/ idle = << >> THEN S
    ELSE LET v == sorted[i]
             r == NearestFeasibleRobot(S, v, t, idle)
         IN  IF r = None THEN AssignInOrder(S, t, sorted, i + 1, idle)
             ELSE AssignInOrder(Assign(S, r, v), t, sorted, i + 1, Remove(idle, r))

\* sorted(waiting_vehicles, key=required - current, reverse=True)
ByChargeNeed(S) ==
    StableSort(S.waiting,
               [xy \in SeqToSet(S.waiting) \X SeqToSet(S.waiting) |->
                   S.vehicles[xy[1]].required_charge - S.vehicles[xy[1]].current_charge
                     > S.vehicles[xy[2]].required_charge - S.vehicles[xy[2]].current_charge])

\* The waiting list as it stands, "sorted" left out.
WaitingUnsorted(S) == S.waiting

\* sorted(waiting_vehicles, key=departure_time)
ByDeadline(S) ==
    StableSort(S.waiting,
               [xy \in SeqToSet(S.waiting) \X SeqToSet(S.waiting) |->
                   S.vehicles[xy[1]].departure_time < S.vehicles[xy[2]].departure_time])

\* list.sort(reverse=True) of vehicles: descending in Vehicle.__lt__.
SortReverse(seq, vs) ==
    StableSort(seq, [xy \in SeqToSet(seq) \X SeqToSet(seq) |-> VehicleLt(vs, xy[2], xy[1])])

assign_max_charge_need_first(S, t, idle) == AssignInOrder(S, t, ByChargeNeed(S), 1, idle)
assign_earliest_deadline_first(S, t, idle) == AssignInOrder(S, t, ByDeadline(S), 1, idle)
assign_most_urgent_first(S, t, idle) ==
    AssignInOrder(S, t, SortReverse(S.waiting, S.vehicles), 1, idle)

\* ------------------------------------------------------------ hybrid policy

\* Natural numbers beyond the machine integers, as base-1000 digits, lowest first;
\* the scores of the hybrid policy are products of up to six factors.
RECURSIVE BigTimes(_, _, _)
BigTimes(big, k, carry) ==
    IF big = << >>
    THEN IF carry = 0 THEN << >> ELSE <<carry % 1000>> \o BigTimes(<< >>, k, carry \div 1000)
    ELSE LET x == Head(big) * k + carry
         IN  <<x % 1000>> \o BigTimes(Tail(big), k, x \div 1000)

RECURSIVE BigProduct(_)
BigProduct(factors) ==
    IF factors = << >> THEN <<1>>
    ELSE IF Head(factors) = 0 THEN << >>
    ELSE LET rest == BigProduct(Tail(factors))
         IN  IF rest = << >> THEN << >> ELSE BigTimes(rest, Head(factors), 0)

RECURSIVE BigLess(_, _)
BigLess(a, b) ==
    IF Len(a) # Len(b) THEN Len(a) < Len(b)
    ELSE IF a = << >> THEN FALSE
    ELSE IF a[Len(a)] # b[Len(b)] THEN a[Len(a)] < b[Len(b)]
    ELSE BigLess(SubSeq(a, 1, Len(a) - 1), SubSeq(b, 1, Len(b) - 1))

\* A score is [num |-> factors, den |-> factors]; x < y by cross-multiplication.
ScoreLess(x, y) == BigLess(BigProduct(x.num \o y.den), BigProduct(y.num \o x.den))

\* ------------------------------------------------------------ exploration

\* RLRobotScheduler.__init__: epsilon = 0.15 = 3/20.
InitialEpsilon == [num |-> <<3>>, den |-> <<20>>]

\* 0.05 = 1/20
EpsilonFloor == [num |-> <<1>>, den |-> <<20>>]

\* "epsilon *= 0.95": 0.95 = 19/20.
Decayed(eps) == [num |-> eps.num \o <<19>>, den |-> eps.den \o <<20>>]

\* RLChargingSimulation.run, after the run: "if self.training_episodes % 5 == 0
\* and self.rl_scheduler.epsilon > 0.05: self.rl_scheduler.epsilon *= 0.95".
EpsilonAfterRun(episodes, eps) ==
    IF episodes % 5 = 0 /\ ScoreLess(EpsilonFloor, eps) THEN Decayed(eps) ELSE eps

\* ---------------------------------------------------------- arrival rates

\* No rate has been computed yet.
NoRate == <<0, 1>>

\* generate_vehicle_arrivals: vehicles_per_minute of the loop's minute, as
\* <<n, d>> for vehicles_per_hour * n / d. The peaks are tested on the minute
\* counted from the start of the run, the night on the hour of the day.
ArrivalRate(m) ==
    LET hour == (m \div 60) % 24
        morning_peak_start == 7 * 60
        morning_peak_end == 10 * 60
        evening_peak_start == 17 * 60
        evening_peak_end == 20 * 60
    IN  IF \/ (morning_peak_start <= m /\ m < morning_peak_end)
           \/ (evening_peak_start <= m /\ m < evening_peak_end)
        THEN <<1, 40>>
        ELSE IF hour >= 23 \/ hour < 6 THEN <<1, 180>>
        ELSE <<1, 60>>

\* ------------------------------------------------------------------- zones

\* The zone of self.zones a position falls in: the first whose closed rectangle holds it.
ZoneOf(p) ==
    LET hw == PARK_WIDTH \div 2
        hh == PARK_HEIGHT \div 2
    IN  IF 0 <= p[1] /\ p[1] <= hw /\ 0 <= p[2] /\ p[2] <= hh THEN "zone1"
        ELSE IF hw <= p[1] /\ p[1] <= PARK_WIDTH /\ 0 <= p[2] /\ p[2] <= hh THEN "zone2"
        ELSE IF 0 <= p[1] /\ p[1] <= hw /\ hh <= p[2] /\ p[2] <= PARK_HEIGHT THEN "zone3"
        ELSE IF hw <= p[1] /\ p[1] <= PARK_WIDTH /\ hh <= p[2] /\ p[2] <= PARK_HEIGHT
             THEN "zone4"
        ELSE "none"

ZoneNames == {"zone1", "zone2", "zone3", "zone4"}

RECURSIVE SumOver(_, _)
SumOver(f, keys) ==
    IF keys = {} THEN 0
    ELSE LET k == CHOOSE k \in keys : TRUE IN f[k] + SumOver(f, keys \ {k})

\* assign_hybrid_strategy: area_balance is 1.5 when the zone's count is below
\* 0.8 * (1/4) of the total, else 1.0; as 3 or 2 (halves).
AreaBalance(S, v) ==
    LET zone == ZoneOf(S.vehicles[v].position)
        total_services == Max(1, SumOver(S.stats.area_coverage, ZoneNames))
    IN  IF zone \in ZoneNames /\ 5 * S.stats.area_coverage[zone] < total_services
        THEN 3 ELSE 2

\* assign_hybrid_strategy: score = service_value * urgency_factor * waiting_factor
\* * area_balance, up to the constant 1 / (4000 * 60 * 2).
BaseScore(S, v, t) ==
    LET veh == S.vehicles[v]
        charge_need == veh.required_charge - veh.current_charge
        time_left == Max(1, veh.departure_time - t)
        waiting_time == t - veh.arrival_time
        urgent == time_left < 60
    IN  [num |-> <<charge_need, IF urgent THEN 300 ELSE 1, Min(180, waiting_time),
                   AreaBalance(S, v)>>,
         den |-> <<time_left, IF urgent THEN time_left ELSE 1>>]

\* match_score = base_score * (1 - min(0.4, distance / 1000)), up to 1 / 1000.
MatchScore(S, r, v, t) ==
    LET base == BaseScore(S, v, t)
        distance == distance_to(S.robots[r].position, S.vehicles[v].position)
    IN  [base EXCEPT !.num = @ \o <<1000 - Min(400, distance)>>]

\* The loop "for vehicle, base_score in vehicle_scores" without the distance
\* penalty: the first vehicle of the list, from index i, passing both checks.
HybridFirstFeasible(S, r, t, scored, i, best) ==
    LET ok == {j \in i .. Len(scored) :
                  TimeFeasible(S, r, scored[j], t) /\ HybridEnergyFeasible(S, r, scored[j])}
    IN  IF ok = {} THEN best
        ELSE scored[CHOOSE j \in ok : \A k \in ok : j <= k]

\* The loop "for vehicle, base_score in vehicle_scores": the first vehicle of
\* the greatest match score among those passing both checks, or None.
RECURSIVE HybridBest(_, _, _, _, _, _)
HybridBest(S, r, t, scored, i, best) ==
    IF i > Len(scored) THEN best
    ELSE LET v == scored[i]
             ok == TimeFeasible(S, r, v, t) /\ HybridEnergyFeasible(S, r, v)
             better == best = None \/ ScoreLess(MatchScore(S, r, best, t), MatchScore(S, r, v, t))
         IN  HybridBest(S, r, t, scored, i + 1, IF ok /\ better THEN v ELSE best)

RECURSIVE HybridLoop(_, _, _, _, _)
HybridLoop(S, t, idle, i, scored) ==
    IF i > Len(idle) \/ scored = << >> THEN S
    ELSE LET best == HybridBest(S, idle[i], t, scored, 1, None)
         IN  IF best = None THEN HybridLoop(S, t, idle, i + 1, scored)
             ELSE HybridLoop(Assign(S, idle[i], best), t, idle, i + 1, Remove(scored, best))

\* idle_robots.sort(key=battery charge, reverse=True)
ByBatteryCharge(S, idle) ==
    StableSort(idle, [xy \in SeqToSet(idle) \X SeqToSet(idle) |->
                         S.batteries[S.robots[xy[1]].battery].current_charge
                           > S.batteries[S.robots[xy[2]].battery].current_charge])

\* ChargingSimulation.assign_hybrid_strategy
assign_hybrid_strategy(S, t, idle) ==
    LET scored == StableSort(S.waiting,
                      [xy \in SeqToSet(S.waiting) \X SeqToSet(S.waiting) |->
                          ScoreLess(BaseScore(S, xy[2], t), BaseScore(S, xy[1], t))])
    IN  HybridLoop(S, t, ByBatteryCharge(S, idle), 1, scored)

\* ---------------------------------------------------------------- rl policy

\* RLRobotScheduler.get_action: every branch draws from the random module and may
\* return any waiting vehicle (exploration has positive weight on each); draw
\* is the value drawn, and the vehicle returned is the one at that index of the
\* waiting list, counted round.
get_action(waiting, draw) == waiting[(draw % Len(waiting)) + 1]

\* RLRobotScheduler.assign_rl_tasks; pick[r] is the value get_action draws for robot r.
RECURSIVE RLLoop(_, _, _, _, _)
RLLoop(S, t, idle, i, pick) ==
    IF i > Len(idle) \/ S.waiting = << >> THEN S
    ELSE LET r == idle[i]
             v == get_action(S.waiting, pick[r])
         IN  IF TimeFeasible(S, r, v, t) /\ EnergyFeasible(S, r, v)
             THEN RLLoop(Assign(S, r, v), t, idle, i + 1, pick)
             ELSE RLLoop(S, t, idle, i + 1, pick)

assign_rl_tasks(S, t, idle, pick) == RLLoop(S, t, ByBatteryCharge(S, idle), 1, pick)

\* Rewards and Q-values are counted in millionths.
Reward(x) == x * 1000000

\* a / b for b > 0, rounded up to the next millionth: a value found <= 0
\* is <= 0 in exact arithmetic too.
DivUp(a, b) == 0 - ((0 - a) \div b)

\* RLRobotScheduler.get_state(robot, vehicles) at clock t, vs being the list
\* of vehicles passed.
get_state(S, r, vs, t) ==
    LET rb == S.robots[r]
        charge == IF rb.battery = None THEN 0 ELSE S.batteries[rb.battery].current_charge
        battery_level ==
            IF rb.battery = None THEN 0
            ELSE IF charge < KWh(10) THEN 1
            ELSE IF charge < KWh(20) THEN 2
            ELSE IF charge < KWh(30) THEN 3
            ELSE IF charge < KWh(45) THEN 4
            ELSE 5
        nearby == {i \in 1 .. Len(vs) :
                      /\ S.vehicles[vs[i]].status = "waiting"
                      /\ distance_to(rb.position, S.vehicles[vs[i]].position) < 300}
        urgent == {i \in nearby : S.vehicles[vs[i]].departure_time - t < 30}
        hour == (t \div 60) % 24
        time_period == IF 6 <= hour /\ hour < 12 THEN 0
                       ELSE IF 12 <= hour /\ hour < 18 THEN 1
                       ELSE IF 18 <= hour /\ hour < 23 THEN 2
                       ELSE 3
    IN  <<rb.position[1] \div 200, rb.position[2] \div 200, battery_level,
          Min(8, Cardinality(nearby)), Min(3, Cardinality(urgent)), time_period>>

\* The entries of q_table[state].
QValues(Q, state) == {e \in Q : e.state = state}

\* RLRobotScheduler.update_q_table, alpha = 0.2 and gamma = 0.8:
\* old + alpha * (reward + gamma * max_next_q - old)
\*    = old + (5 * reward + 4 * max_next_q - 5 * old) / 25.
update_q_table(Q, state, action, reward, next_state) ==
    LET Q0 == IF \E e \in Q : e.state = state /\ e.action = action THEN Q
              ELSE Q \cup {[state |-> state, action |-> action, q |-> 0]}
        next == QValues(Q0, next_state)
        max_next_q == IF next = {} THEN 0
                      ELSE (CHOOSE e \in next : \A f \in next : f.q <= e.q).q
        entry == CHOOSE e \in Q0 : e.state = state /\ e.action = action
        old_value == entry.q
    IN  (Q0 \ {entry})
           \cup {[entry EXCEPT !.q = old_value
                      + DivUp(5 * reward + 4 * max_next_q - 5 * old_value, 25)]}

\* calculate_reward that pays half a point for every assignment.
CalculateRewardPaysAssignment(S, r, v, t) == Reward(1) \div 2

\* RLRobotScheduler.calculate_reward(robot, vehicle, current_time)
calculate_reward(S, r, v, t) ==
    LET rb == S.robots[r]
        veh == S.vehicles[v]
        completed == veh.status = "completed"
        charge_reward == 50 * (veh.current_charge - veh.initial_charge)
        time_efficiency ==
            IF veh.charging_end_time # None
            THEN Max(Reward(1),
                     Reward(10) - Min(Reward(9),
                         Reward(veh.charging_end_time - veh.charging_start_time) \div 30))
            ELSE Reward(1)
        base_reward == IF completed THEN Reward(20) + charge_reward + time_efficiency
                       ELSE IF veh.status = "failed" THEN Reward(0 - 15)
                       ELSE 0
        time_left == veh.departure_time - t
        charge_needed == veh.required_charge - veh.current_charge
        urgency_reward == IF time_left < 30 /\ completed THEN Reward(10)
                          ELSE IF time_left < 60 /\ completed THEN Reward(5)
                          ELSE 0
        distance_penalty == Min(Reward(10), 10000 * distance_to(rb.position, veh.position))
        battery_level == IF rb.battery = None THEN 0
                         ELSE S.batteries[rb.battery].current_charge
        \* twice energy_needed = battery_needed_for_trip(position, True) + charge_needed * 0.5
        twice_needed ==
            ((2 * (distance_to(rb.position, veh.position)
                     + distance_to(veh.position, find_nearest_charging_station(rb.position)))
                * BatteryConsumptionRate) \div Speed)
              + charge_needed
        energy_penalty == IF 2 * battery_level < twice_needed THEN Reward(0 - 8)
                          ELSE IF 20 * battery_level < 13 * twice_needed THEN Reward(0 - 3)
                          ELSE 0
        waiting_reward == IF t - veh.arrival_time > 60 /\ completed THEN Reward(5) ELSE 0
    IN  base_reward + urgency_reward - distance_penalty + energy_penalty + waiting_reward

\* RLRobotScheduler.assign_rl_tasks, the calls of update_q_table: the table and
\* the rewards passed, from robot idle[i] on.
RECURSIVE RLUpdates(_, _, _, _, _, _)
RLUpdates(acc, S, t, idle, i, pick) ==
    IF i > Len(idle) \/ S.waiting = << >> THEN acc
    ELSE LET r == idle[i]
             state == get_state(S, r, S.waiting, t)
             v == get_action(S.waiting, pick[r])
             Learnt(reward, next_state) ==
                 [q |-> update_q_table(acc.q, state, v, reward, next_state),
                  rewards |-> Append(acc.rewards, reward)]
         IN  IF ~TimeFeasible(S, r, v, t)
             THEN RLUpdates(Learnt(Reward(0 - 5), state), S, t, idle, i + 1, pick)
             ELSE IF EnergyFeasible(S, r, v)
             THEN LET S1 == Assign(S, r, v)
                  IN  RLUpdates(Learnt(calculate_reward(S1, r, v, t),
                                       get_state(S1, r, S1.waiting, t)),
                                S1, t, idle, i + 1, pick)
             ELSE RLUpdates(Learnt(Reward(0 - 8), state), S, t, idle, i + 1, pick)

\* The Q-table and the rewards after assign_rl_tasks.
q_table_after(S, t, idle, pick) ==
    RLUpdates([q |-> q_table, rewards |-> << >>], S, t, ByBatteryCharge(S, idle), 1, pick)

\* ------------------------------------------------------------ assign_tasks

\* ChargingSimulation.update_vehicle_priorities
update_vehicle_priorities(S, t) ==
    LET vs == [v \in VehicleIds |->
                  IF Contains(S.waiting, v)
                  THEN [S.vehicles[v] EXCEPT !.priority = update_priority(S.vehicles[v], t)]
                  ELSE S.vehicles[v]]
    IN  [S EXCEPT !.vehicles = vs, !.waiting = SortReverse(S.waiting, vs)]

\* The strategy dispatch of ChargingSimulation.assign_tasks; a name it does not
\* know falls through every branch.
Dispatch(S, t, idle, strategy) ==
    CASE strategy = "nearest_first" -> assign_nearest_first(S, t, idle, 1)
      [] strategy = "max_charge_need_first" -> assign_max_charge_need_first(S, t, idle)
      [] strategy = "earliest_deadline_first" -> assign_earliest_deadline_first(S, t, idle)
      [] strategy = "most_urgent_first" -> assign_most_urgent_first(S, t, idle)
      [] strategy = "hybrid_strategy" -> assign_hybrid_strategy(S, t, idle)
      [] OTHER -> S

\* ------------------------------------------------------------------ events

\* Tuples (time, kind, ...) compare by time, then by kind as a string.
KindOrder == <<"assign_tasks", "update_priorities", "update_status",
               "vehicle_arrival", "vehicle_departure">>

KindRank(kind) == CHOOSE i \in 1 .. Len(KindOrder) : KindOrder[i] = kind

Event(time, kind, vehicle) == [time |-> time, kind |-> kind, vehicle |-> vehicle]

\* e < f for two event tuples: by time, then by kind, then, for two events of
\* one minute and kind, by Vehicle.__lt__ on the vehicles as they are now (vs).
EventLt(vs, e, f) ==
    IF e.time # f.time THEN e.time < f.time
    ELSE IF e.kind # f.kind THEN KindRank(e.kind) < KindRank(f.kind)
    ELSE IF e.vehicle = f.vehicle \/ e.vehicle = None \/ f.vehicle = None THEN FALSE
    ELSE VehicleLt(vs, e.vehicle, f.vehicle)

\* heapq._siftdown(heap, startpos, pos), positions counted from 1.
RECURSIVE SiftDown(_, _, _, _, _)
SiftDown(vs, heap, startpos, pos, newitem) ==
    IF pos > startpos /\ EventLt(vs, newitem, heap[pos \div 2])
    THEN SiftDown(vs, [heap EXCEPT ![pos] = heap[pos \div 2]], startpos, pos \div 2, newitem)
    ELSE [heap EXCEPT ![pos] = newitem]

\* heapq._siftup(heap, pos), positions counted from 1.
RECURSIVE SiftUp(_, _, _, _, _)
SiftUp(vs, heap, startpos, pos, newitem) ==
    LET childpos == 2 * pos
        rightpos == childpos + 1
    IN  IF childpos <= Len(heap)
        THEN LET c == IF rightpos <= Len(heap) /\ ~EventLt(vs, heap[childpos], heap[rightpos])
                      THEN rightpos ELSE childpos
             IN  SiftUp(vs, [heap EXCEPT ![pos] = heap[c]], startpos, c, newitem)
        ELSE SiftDown(vs, [heap EXCEPT ![pos] = newitem], startpos, pos, newitem)

\* heapq.heappush(heap, item)
heappush(vs, heap, item) == SiftDown(vs, Append(heap, item), 1, Len(heap) + 1, item)

\* heapq.heappop(heap): the item returned is heap[1]; this is the heap left.
heappop(vs, heap) ==
    LET lastelt == heap[Len(heap)]
        rest == SubSeq(heap, 1, Len(heap) - 1)
    IN  IF rest = << >> THEN rest ELSE SiftUp(vs, rest, 1, 1, lastelt)

\* The loop condition with <= for <.
LoopConditionInclusive == events # << >> /\ current_time <= MAX_SIM_TIME

\* "while self.events and self.current_time < MAX_SIM_TIME"
LoopCondition == events # << >> /\ current_time < MAX_SIM_TIME

Tables ==
    [robots |-> robots, batteries |-> batteries, vehicles |-> vehicles,
     waiting |-> waiting_vehicles, completed |-> completed_vehicles, stats |-> stats]

SetTables(S) ==
    /\ robots' = S.robots
    /\ batteries' = S.batteries
    /\ vehicles' = S.vehicles
    /\ waiting_vehicles' = S.waiting
    /\ completed_vehicles' = S.completed
    /\ stats' = S.stats

\* run(): "event = heapq.heappop(self.events); self.current_time = event[0]"
\* for an event of the given kind.
Pops(kind) ==
    /\ phase = "running"
    /\ LoopCondition
    /\ events[1].kind = kind
    /\ current_time' = events[1].time

\* The pop and the push with the item posted one minute late.
RepostedLate(S, item) ==
    heappush(S.vehicles, heappop(vehicles, events), [item EXCEPT !.time = @ + 1])

\* The heap after the pop and the push of an item, the tables being S at the push.
Reposted(S, item) == heappush(S.vehicles, heappop(vehicles, events), item)

\* ChargingSimulation.update_zone_coverage
update_zone_coverage(S, p) ==
    IF ZoneOf(p) \in ZoneNames
    THEN [S EXCEPT !.stats.area_coverage[ZoneOf(p)] = @ + 1]
    ELSE S

\* handle_vehicle_arrival: the event it pushes for the vehicle's departure.
DepartureEventAtArrival(v) == Event(vehicles[v].arrival_time, "vehicle_departure", v)

\* The departure event posted for the minute before the arrival.
DepartureEventInPast(v) == Event(vehicles[v].arrival_time - 1, "vehicle_departure", v)

DepartureEvent(v) == Event(vehicles[v].departure_time, "vehicle_departure", v)

\* ChargingSimulation.handle_vehicle_arrival, without the push of the departure event.
handle_vehicle_arrival(S, v, t) ==
    LET S1 == [S EXCEPT !.waiting = Append(@, v),
                        !.vehicles[v].priority = update_priority(S.vehicles[v], t)]
        S2 == update_zone_coverage(S1, S.vehicles[v].position)
    IN  IF S.vehicles[v].departure_time - t < 60
        THEN assign_emergency_task(S2, v, t)
        ELSE S2

\* run(): event "vehicle_arrival"
HandleVehicleArrival ==
    LET e == events[1]
        pushed == [Tables EXCEPT !.vehicles[e.vehicle].priority =
                                     update_priority(vehicles[e.vehicle], e.time)]
    IN  /\ Pops("vehicle_arrival")
        /\ arrived' = arrived \cup {e.vehicle}
        /\ SetTables(handle_vehicle_arrival(Tables, e.vehicle, e.time))
        /\ events' = Reposted(pushed, DepartureEvent(e.vehicle))
        /\ UNCHANGED <<failed_vehicles, last_assignment_time, assignment_cache,
                       scheduling_strategy, scale, efficiency_stream,
                       action_stream, phase, minute, vehicles_per_minute,
                       training_episodes, epsilon, q_table, q_rewards>>

\* handle_vehicle_departure that leaves the vehicle's robot at its task.
HandleVehicleDepartureKeepsRobot(S, failed, v) ==
    IF ~Contains(S.completed, v) /\ S.vehicles[v].status # "completed"
    THEN LET S1 == [S EXCEPT !.vehicles[v].status = "failed",
                             !.stats.failed_count = @ + 1]
         IN  [S |-> [S1 EXCEPT !.waiting = Remove(@, v)], failed |-> Append(failed, v)]
    ELSE [S |-> S, failed |-> failed]

\* handle_vehicle_departure that forgets "self.stats['failed_count'] += 1".
HandleVehicleDepartureUncounted(S, failed, v) ==
    IF ~Contains(S.completed, v) /\ S.vehicles[v].status # "completed"
    THEN LET r == S.vehicles[v].assigned_robot
             release == r # None /\ S.robots[r].target_vehicle = v
             S1 == [S EXCEPT !.vehicles[v].status = "failed"]
             S2 == IF release
                   THEN [S1 EXCEPT !.robots[r].status = "returning",
                                   !.robots[r].target_vehicle = None,
                                   !.vehicles[v].assigned_robot = None]
                   ELSE S1
         IN  [S |-> [S2 EXCEPT !.waiting = Remove(@, v)], failed |-> Append(failed, v)]
    ELSE [S |-> S, failed |-> failed]

\* The departure handler without its test for a completed vehicle.
HandleVehicleDepartureUnguarded(S, failed, v) ==
    LET r == S.vehicles[v].assigned_robot
        release == r # None /\ S.robots[r].target_vehicle = v
        S1 == [S EXCEPT !.vehicles[v].status = "failed",
                        !.stats.failed_count = @ + 1]
        S2 == IF release
              THEN [S1 EXCEPT !.robots[r].status = "returning",
                              !.robots[r].target_vehicle = None,
                              !.vehicles[v].assigned_robot = None]
              ELSE S1
    IN  [S |-> [S2 EXCEPT !.waiting = Remove(@, v)], failed |-> Append(failed, v)]

\* The departure handler that lets a vehicle under charge go on charging.
HandleVehicleDepartureSparesCharging(S, failed, v) ==
    IF /\ ~Contains(S.completed, v)
       /\ S.vehicles[v].status \notin {"completed", "charging"}
    THEN LET r == S.vehicles[v].assigned_robot
             release == r # None /\ S.robots[r].target_vehicle = v
             S1 == [S EXCEPT !.vehicles[v].status = "failed",
                             !.stats.failed_count = @ + 1]
             S2 == IF release
                   THEN [S1 EXCEPT !.robots[r].status = "returning",
                                   !.robots[r].target_vehicle = None,
                                   !.vehicles[v].assigned_robot = None]
                   ELSE S1
         IN  [S |-> [S2 EXCEPT !.waiting = Remove(@, v)], failed |-> Append(failed, v)]
    ELSE [S |-> S, failed |-> failed]

\* ChargingSimulation.handle_vehicle_departure on the tables and failed_vehicles.
handle_vehicle_departure(S, failed, v) ==
    IF ~Contains(S.completed, v) /\ S.vehicles[v].status # "completed"
    THEN LET r == S.vehicles[v].assigned_robot
             release == r # None /\ S.robots[r].target_vehicle = v
             S1 == [S EXCEPT !.vehicles[v].status = "failed",
                             !.stats.failed_count = @ + 1]
             S2 == IF release
                   THEN [S1 EXCEPT !.robots[r].status = "returning",
                                   !.robots[r].target_vehicle = None,
                                   !.vehicles[v].assigned_robot = None]
                   ELSE S1
         IN  [S |-> [S2 EXCEPT !.waiting = Remove(@, v)], failed |-> Append(failed, v)]
    ELSE [S |-> S, failed |-> failed]

\* run(): event "vehicle_departure"
HandleVehicleDeparture ==
    LET e == events[1]
    IN  /\ Pops("vehicle_departure")
        /\ LET out == handle_vehicle_departure(Tables, failed_vehicles, e.vehicle)
           IN  SetTables(out.S) /\ failed_vehicles' = out.failed
        /\ events' = heappop(vehicles, events)
        /\ UNCHANGED <<arrived, last_assignment_time, assignment_cache,
                       scheduling_strategy, scale, efficiency_stream,
                       action_stream, phase, minute, vehicles_per_minute,
                       training_episodes, epsilon, q_table, q_rewards>>

\* The efficiencies update_status draws at minute t, one for each robot: the
\* run's stream of random.uniform(0.95, 1.05) values is fixed by its seed, and
\* the model enumerates the streams that repeat with period 2.
EfficiencyDraws(t) == [r \in RobotIds |-> efficiency_stream[((t + r) % 2) + 1]]

\* run(): event "update_status", reposted one minute later
HandleUpdateStatus ==
    LET e == events[1]
        S == update_status(Tables, e.time, EfficiencyDraws(e.time), scheduling_strategy)
    IN  /\ Pops("update_status")
        /\ SetTables(S)
        /\ events' = Reposted(S, Event(e.time + 1, "update_status", None))
        /\ UNCHANGED <<arrived, failed_vehicles, last_assignment_time, assignment_cache,
                       scheduling_strategy, scale, efficiency_stream,
                       action_stream, phase, minute, vehicles_per_minute,
                       training_episodes, epsilon, q_table, q_rewards>>

\* run(): event "update_priorities", reposted five minutes later
HandleUpdatePriorities ==
    LET e == events[1]
        S == update_vehicle_priorities(Tables, e.time)
    IN  /\ Pops("update_priorities")
        /\ SetTables(S)
        /\ events' = Reposted(S, Event(e.time + 5, "update_priorities", None))
        /\ UNCHANGED <<arrived, failed_vehicles, last_assignment_time, assignment_cache,
                       scheduling_strategy, scale, efficiency_stream,
                       action_stream, phase, minute, vehicles_per_minute,
                       training_episodes, epsilon, q_table, q_rewards>>

\* The cache check that opens ChargingSimulation.assign_tasks.
CacheFresh(t) ==
    /\ t - last_assignment_time < 2
    /\ last_assignment_time > 0
    /\ Len(waiting_vehicles) = assignment_cache

\* ChargingSimulation.assign_tasks (every strategy but "rl")
AssignTasksBase(t) ==
    IF CacheFresh(t)
    THEN UNCHANGED <<robots, batteries, vehicles, waiting_vehicles, completed_vehicles,
                     stats, last_assignment_time, assignment_cache>>
    ELSE LET S1 == update_vehicle_priorities(Tables, t)
             idle == IdleRobots(S1)
         IN  IF S1.waiting = << >> \/ idle = << >>
             THEN SetTables(S1) /\ UNCHANGED <<last_assignment_time, assignment_cache>>
             ELSE LET S2 == Dispatch(S1, t, idle, scheduling_strategy)
                  IN  /\ SetTables(S2)
                      /\ last_assignment_time' = t
                      /\ assignment_cache' = Len(S2.waiting)

\* The values get_action draws at minute t, one for each robot: the stream is
\* fixed by the run's seed, and the model enumerates those of period 2.
ActionDraws(t) == [r \in RobotIds |-> action_stream[((t + r) % 2) + 1]]

\* RLChargingSimulation.assign_tasks with get_action drawing from a generator
\* of its own: any values, not those of the run's stream.
AssignTasksRLUnseeded(t) ==
    LET S1 == update_vehicle_priorities(Tables, t)
        idle == IdleRobots(S1)
    IN  /\ UNCHANGED <<last_assignment_time, assignment_cache>>
        /\ IF S1.waiting = << >> \/ idle = << >>
           THEN SetTables(S1) /\ UNCHANGED <<q_table, q_rewards>>
           ELSE \E pick \in [RobotIds -> 0 .. 1] :
                   /\ SetTables(assign_rl_tasks(S1, t, idle, pick))
                   /\ q_table' = q_table_after(S1, t, idle, pick).q
                   /\ q_rewards' = q_table_after(S1, t, idle, pick).rewards

\* RLChargingSimulation.assign_tasks
AssignTasksRL(t) ==
    LET S1 == update_vehicle_priorities(Tables, t)
        idle == IdleRobots(S1)
    IN  /\ UNCHANGED <<last_assignment_time, assignment_cache>>
        /\ IF S1.waiting = << >> \/ idle = << >>
           THEN SetTables(S1) /\ UNCHANGED <<q_table, q_rewards>>
           ELSE /\ SetTables(assign_rl_tasks(S1, t, idle, ActionDraws(t)))
                /\ q_table' = q_table_after(S1, t, idle, ActionDraws(t)).q
                /\ q_rewards' = q_table_after(S1, t, idle, ActionDraws(t)).rewards

\* run(): event "assign_tasks", reposted two minutes later
HandleAssignTasks ==
    LET e == events[1]
    IN  /\ Pops("assign_tasks")
        /\ IF scheduling_strategy = "rl"
           THEN AssignTasksRL(e.time)
           ELSE AssignTasksBase(e.time) /\ UNCHANGED <<q_table, q_rewards>>
        /\ events' = heappush(vehicles', heappop(vehicles, events),
                              Event(e.time + 2, "assign_tasks", None))
        /\ UNCHANGED <<arrived, failed_vehicles, scheduling_strategy, scale, efficiency_stream,
                       action_stream, phase, minute, vehicles_per_minute,
                       training_episodes, epsilon>>

\* run(): the loop ends and calculate_final_stats runs; robot_utilization[r] is
\* kept as its completed_tasks, the number of completed vehicles whose
\* assigned_robot is r.
Finish ==
    /\ phase = "running"
    /\ ~LoopCondition
    /\ phase' = "done"
    /\ stats' = [stats EXCEPT !.robot_utilization =
                    [r \in RobotIds |->
                        Cardinality({i \in 1 .. Len(completed_vehicles) :
                            vehicles[completed_vehicles[i]].assigned_robot = r})]]
    /\ epsilon' = IF scheduling_strategy = "rl"
                  THEN EpsilonAfterRun(training_episodes, epsilon)
                  ELSE epsilon
    /\ UNCHANGED <<current_time, events, vehicles, arrived, waiting_vehicles, robots,
                   batteries, completed_vehicles, failed_vehicles, last_assignment_time,
                   assignment_cache, scheduling_strategy, scale, efficiency_stream,
                   action_stream, minute, vehicles_per_minute, training_episodes,
                   q_table, q_rewards>>

\* RLChargingSimulation.run called again on a simulation whose run is over:
\* the episode is counted, the loop of run() finds its condition false and
\* handles nothing, calculate_final_stats runs once more, epsilon is adjusted.
RunAgain ==
    /\ phase = "done"
    /\ scheduling_strategy = "rl"
    /\ training_episodes < MaxEpisodes
    /\ ~LoopCondition
    /\ training_episodes' = training_episodes + 1
    /\ stats' = [stats EXCEPT !.robot_utilization =
                    [r \in RobotIds |->
                        Cardinality({i \in 1 .. Len(completed_vehicles) :
                            vehicles[completed_vehicles[i]].assigned_robot = r})]]
    /\ epsilon' = EpsilonAfterRun(training_episodes', epsilon)
    /\ UNCHANGED <<current_time, events, vehicles, arrived, waiting_vehicles, robots,
                   batteries, completed_vehicles, failed_vehicles, last_assignment_time,
                   assignment_cache, scheduling_strategy, scale, efficiency_stream,
                   action_stream, minute, vehicles_per_minute, phase,
                   q_table, q_rewards>>

\* -------------------------------------------------------------------- setup

\* random.choice(CHARGING_STATIONS) for Robot.home_station: the stations of the line x = 900.
RobotHomes == {CHARGING_STATIONS[2], CHARGING_STATIONS[4]}

\* What generate_vehicle_arrivals may draw for a vehicle arriving before 7:00
\* (no peak): stay_duration = randint(30, 360); a stay above 240 draws
\* initial in [5, 30] and required in [70, 95], a shorter one initial in
\* [15, 50] and required in [60, 85]; the position lies in the park.
GeneratorAllows(a) ==
    /\ 0 <= a.arrival_time /\ a.arrival_time < MAX_SIM_TIME /\ a.arrival_time < 7 * 60
    /\ 30 <= a.stay_duration /\ a.stay_duration <= 360
    /\ 0 <= a.position[1] /\ a.position[1] <= PARK_WIDTH
    /\ 0 <= a.position[2] /\ a.position[2] <= PARK_HEIGHT
    /\ IF a.stay_duration > 240
       THEN /\ KWh(5) <= a.initial_charge /\ a.initial_charge <= KWh(30)
            /\ KWh(70) <= a.required_charge /\ a.required_charge <= KWh(95)
       ELSE /\ KWh(15) <= a.initial_charge /\ a.initial_charge <= KWh(50)
            /\ KWh(60) <= a.required_charge /\ a.required_charge <= KWh(85)

Draw(pos, stay, initial, required) ==
    [position |-> pos, stay_duration |-> stay,
     initial_charge |-> KWh(initial), required_charge |-> KWh(required)]

\* The draws the model enumerates, all on the line x = 900: a short stay next to
\* station (900,100); a short stay midway between the two stations, 50 minutes
\* from either; a short stay 48 minutes from one station and 52 from the other,
\* in reach of both; a long stay at station (900,900) that needs more than one
\* battery; a long stay two ticks from it that needs more than one battery; a
\* long stay at station (900,100), where setup() puts no spare battery; a long
\* stay two ticks from station (900,900) whose charge ends, under some streams
\* of efficiencies, with less than 10 kWh left in the robot's battery.
ShortDraws ==
    { Draw(<<900, 116>>, 45, 50, 60),
      Draw(<<900, 500>>, 50, 15, 85),
      Draw(<<900, 484>>, 55, 50, 60) }

LongDraws ==
    { Draw(<<900, 900>>, 300, 30, 95),
      Draw(<<900, 884>>, 300, 5, 95),
      Draw(<<900, 100>>, 300, 30, 95),
      Draw(<<900, 884>>, 300, 20, 70) }

\* Vehicle 0 arrives at minute 0 with any of the draws; vehicle 1 arrives at
\* minute 0 or 3 with a short stay; any further vehicle arrives at minute 3
\* next to station (900,100).
DrawsOf(v) ==
    IF v = 0 THEN ShortDraws \cup LongDraws
    ELSE IF v = 1 THEN ShortDraws
    ELSE {Draw(<<900, 116>>, 45, 50, 60)}
ArrivalMinutesOf(v) == IF v = 0 THEN {0} ELSE IF v = 1 THEN {0, 3} ELSE {3}

Arrivals(v) ==
    {a \in {[arrival_time |-> m, position |-> d.position, stay_duration |-> d.stay_duration,
             initial_charge |-> d.initial_charge, required_charge |-> d.required_charge] :
                m \in ArrivalMinutesOf(v), d \in DrawsOf(v)} :
        GeneratorAllows(a)}

\* Vehicle.__init__
NewVehicle(a) ==
    [arrival_time |-> a.arrival_time, position |-> a.position,
     initial_charge |-> a.initial_charge, current_charge |-> a.initial_charge,
     departure_time |-> a.arrival_time + a.stay_duration,
     required_charge |-> a.required_charge, status |-> "waiting",
     assigned_robot |-> None, charging_start_time |-> None,
     charging_end_time |-> None, priority |-> <<0, 1>>]

\* Robot.__init__, and the battery setup() hands the robot.
NewRobot(r, home) ==
    [home_station |-> home, position |-> home,
     battery |-> IF r < BatteriesCount THEN r ELSE None,
     status |-> "idle", target_vehicle |-> None]

\* Battery.__init__ and setup(): battery b belongs to station b mod 5 and lies
\* there, unless setup() hands it to robot b.
NewBattery(b, homes) ==
    LET station == CHARGING_STATIONS[(b % Len(CHARGING_STATIONS)) + 1]
    IN  IF b < RobotsCount
        THEN [current_charge |-> MaxCapacity, status |-> "in-use", location |-> homes[b],
              assigned_robot |-> b, charging_station |-> station]
        ELSE [current_charge |-> MaxCapacity, status |-> "available", location |-> station,
              assigned_robot |-> None, charging_station |-> station]

\* generate_vehicle_arrivals: the arrival events, pushed in the order of the ids.
RECURSIVE ArrivalsPushed(_, _, _)
ArrivalsPushed(vs, v, heap) ==
    IF v >= VehiclesCount THEN heap
    ELSE ArrivalsPushed(vs, v + 1,
             heappush(vs, heap, Event(vs[v].arrival_time, "vehicle_arrival", v)))

\* generate_vehicle_arrivals has returned: its loop variable keeps the last
\* minute of the horizon and the rate that minute had.
GeneratorDone ==
    /\ minute = MAX_SIM_TIME - 1
    /\ vehicles_per_minute = ArrivalRate(MAX_SIM_TIME - 1)

\* setup() after an __init__ that knew the scale: vehicle ids ascend with the
\* arrival minute.
\* The state in which "params = PROBLEM_SCALES[scale]" raises KeyError: the
\* empty lists __init__ has made by then; no generator has drawn anything.
InitAborted ==
    /\ current_time = 0
    /\ efficiency_stream = <<95, 95>>
    /\ action_stream = <<0, 0>>
    /\ robots = << >>
    /\ batteries = << >>
    /\ vehicles = << >>
    /\ events = << >>
    /\ arrived = {}
    /\ waiting_vehicles = << >>
    /\ completed_vehicles = << >>
    /\ failed_vehicles = << >>
    /\ stats = [completed_count |-> 0, failed_count |-> 0, total_waiting_time |-> 0,
                total_charging_time |-> 0, battery_swaps |-> 0,
                area_coverage |-> [z \in ZoneNames |-> 0],
                robot_utilization |-> [r \in RobotIds |-> 0]]
    /\ last_assignment_time = 0
    /\ assignment_cache = 0
    /\ minute = None
    /\ vehicles_per_minute = NoRate
    /\ training_episodes = 0
    /\ epsilon = InitialEpsilon
    /\ q_table = {}
    /\ q_rewards = << >>
    /\ phase = "aborted"

InitSetUp ==
    /\ current_time = 0
    /\ efficiency_stream \in [1 .. 2 -> Efficiencies]
    /\ action_stream \in [1 .. 2 -> 0 .. 1]
    /\ scheduling_strategy # "rl" => action_stream = <<0, 0>>
    /\ \E homes \in [RobotIds -> RobotHomes] :
          /\ homes[0] = CHARGING_STATIONS[4]
          /\ \A r \in RobotIds : r >= 2 => homes[r] = CHARGING_STATIONS[2]
          /\ robots = [r \in RobotIds |-> NewRobot(r, homes[r])]
          /\ batteries = [b \in BatteryIds |-> NewBattery(b, homes)]
    /\ \E as \in [VehicleIds -> UNION {Arrivals(v) : v \in VehicleIds}] :
          /\ \A v \in VehicleIds : as[v] \in Arrivals(v)
          /\ \A v, w \in VehicleIds : v < w => as[v].arrival_time <= as[w].arrival_time
          /\ vehicles = [v \in VehicleIds |-> NewVehicle(as[v])]
    /\ events = heappush(vehicles,
                  heappush(vehicles,
                     heappush(vehicles, ArrivalsPushed(vehicles, 0, << >>),
                              Event(0, "assign_tasks", None)),
                     Event(1, "update_status", None)),
                  Event(1, "update_priorities", None))
    /\ arrived = {}
    /\ waiting_vehicles = << >>
    /\ completed_vehicles = << >>
    /\ failed_vehicles = << >>
    /\ stats = [completed_count |-> 0, failed_count |-> 0, total_waiting_time |-> 0,
                total_charging_time |-> 0, battery_swaps |-> 0,
                area_coverage |-> [z \in ZoneNames |-> 0],
                robot_utilization |-> [r \in RobotIds |-> 0]]
    /\ last_assignment_time = 0
    /\ assignment_cache = 0
    /\ GeneratorDone
    /\ training_episodes = (IF scheduling_strategy = "rl" THEN 1 ELSE 0)
    /\ epsilon = InitialEpsilon
    /\ q_table = {}
    /\ q_rewards = << >>
    /\ phase = "running"

\* ChargingSimulation(scale, scheduling_strategy) and setup() for a scale of
\* PROBLEM_SCALES: __init__ stores the strategy name as it is.
Init ==
    /\ scale \in PROBLEM_SCALES
    /\ scheduling_strategy \in StrategyNames
    /\ InitSetUp

Next ==
    \/ HandleVehicleArrival
    \/ HandleAssignTasks
    \/ HandleUpdateStatus
    \/ HandleUpdatePriorities
    \/ HandleVehicleDeparture
    \/ Finish

Spec == Init /\ [][Next]_vars

\* run() is sequential code: while its loop condition holds it goes on to handle
\* the event at the head of the heap, and when it fails it goes on to return.
\* The first is weak fairness of the handlers, with ENABLED written out as the
\* loop condition; the second is weak fairness of Finish.
LoopRuns == []<>(~(phase = "running" /\ LoopCondition)) \/ []<><<Next>>_vars

LiveSpec == Spec /\ LoopRuns /\ WF_vars(Finish)

\* ------------------------------------------------- any configuration

\* ChargingSimulation(scale, scheduling_strategy) and setup() for any names:
\* __init__ looks the scale up, which raises for a name PROBLEM_SCALES lacks.
ConfigInit ==
    /\ scale \in ScaleNames
    /\ scheduling_strategy \in StrategyNames
    /\ IF scale \in PROBLEM_SCALES THEN InitSetUp ELSE InitAborted

ConfigSpec == ConfigInit /\ [][Next]_vars

\* ------------------------------------------------------------ rl episodes

\* An RLChargingSimulation on which run() is called again and again: the first
\* call runs the simulation, every later call finds the clock at the horizon.
EpisodeInit ==
    /\ scale \in PROBLEM_SCALES
    /\ scheduling_strategy = "rl"
    /\ InitSetUp
    /\ efficiency_stream = <<95, 105>>
    /\ action_stream = <<0, 1>>
    /\ \A r \in RobotIds : robots[r].home_station = CHARGING_STATIONS[4]
    /\ \A v \in VehicleIds : vehicles[v].departure_time < MAX_SIM_TIME

EpisodeNext == Next \/ RunAgain

EpisodeSpec == EpisodeInit /\ [][EpisodeNext]_vars

\* ---------------------------------------------------- the arrival generator

\* One pass of the loop "for minute in range(total_minutes)" of
\* generate_vehicle_arrivals, up to the rate: setup() has made the robots and
\* the batteries, no vehicle exists yet.
GeneratorInit ==
    /\ current_time = 0
    /\ scale \in PROBLEM_SCALES
    /\ scheduling_strategy = "nearest_first"
    /\ efficiency_stream = <<95, 95>>
    /\ action_stream = <<0, 0>>
    /\ LET homes == [r \in RobotIds |-> CHARGING_STATIONS[4]]
       IN  /\ robots = [r \in RobotIds |-> NewRobot(r, homes[r])]
           /\ batteries = [b \in BatteryIds |-> NewBattery(b, homes)]
    /\ vehicles = << >>
    /\ events = << >>
    /\ arrived = {}
    /\ waiting_vehicles = << >>
    /\ completed_vehicles = << >>
    /\ failed_vehicles = << >>
    /\ stats = [completed_count |-> 0, failed_count |-> 0, total_waiting_time |-> 0,
                total_charging_time |-> 0, battery_swaps |-> 0,
                area_coverage |-> [z \in ZoneNames |-> 0],
                robot_utilization |-> [r \in RobotIds |-> 0]]
    /\ last_assignment_time = 0
    /\ assignment_cache = 0
    /\ minute \in 0 .. MaxMinute - 1
    /\ vehicles_per_minute = NoRate
    /\ training_episodes = 0
    /\ epsilon = InitialEpsilon
    /\ q_table = {}
    /\ q_rewards = << >>
    /\ phase = "rating"

\* "vehicles_per_minute = ..." for the loop's minute.
DrawArrivalRate ==
    /\ phase = "rating"
    /\ vehicles_per_minute' = ArrivalRate(minute)
    /\ phase' = "rated"
    /\ UNCHANGED <<current_time, events, vehicles, arrived, waiting_vehicles, robots,
                   batteries, completed_vehicles, failed_vehicles, stats,
                   last_assignment_time, assignment_cache, scheduling_strategy, scale,
                   efficiency_stream, action_stream, minute, training_episodes, epsilon, q_table, q_rewards>>

GeneratorNext == DrawArrivalRate

GeneratorSpec == GeneratorInit /\ [][GeneratorNext]_vars

\* ---------------------------------------------------------- policies alone

\* assign_nearest_first, assign_earliest_deadline_first and
\* assign_most_urgent_first applied to tables in
\* which robot 0 is the one idle robot, at its home station with a full
\* battery, every other robot is on its way home, and vehicles 0 and 1 wait:
\* each stands 16, 200 or 400 m from station (900,100) and leaves at minute
\* 60, 100 or 200; the waiting list holds them in either order.
PolicyStays == {60, 100, 200}
PolicyPositions == {<<900, 116>>, <<900, 300>>, <<900, 500>>}

PolicyArrivals(v) ==
    IF v <= 1
    THEN {a \in {[arrival_time |-> 0, position |-> p, stay_duration |-> d,
                  initial_charge |-> KWh(50), required_charge |-> KWh(60)] :
                     p \in PolicyPositions, d \in PolicyStays} : GeneratorAllows(a)}
    ELSE {[arrival_time |-> 3, position |-> <<900, 116>>, stay_duration |-> 45,
           initial_charge |-> KWh(50), required_charge |-> KWh(60)]}

PolicyInit ==
    /\ current_time = 0
    /\ scheduling_strategy \in {"nearest_first", "earliest_deadline_first",
                                "most_urgent_first"}
    /\ scale \in PROBLEM_SCALES
    /\ efficiency_stream = <<95, 95>>
    /\ action_stream = <<0, 0>>
    /\ \E home \in RobotHomes :
          LET homes == [r \in RobotIds |-> home]
          IN  /\ robots = [r \in RobotIds |->
                              IF r = 0 THEN NewRobot(r, home)
                              ELSE [NewRobot(r, home) EXCEPT
                                       !.status = "returning",
                                       !.position = <<900, 500>>]]
              /\ batteries = [b \in BatteryIds |-> NewBattery(b, homes)]
    /\ \E as \in [VehicleIds -> UNION {PolicyArrivals(v) : v \in VehicleIds}] :
          /\ \A v \in VehicleIds : as[v] \in PolicyArrivals(v)
          /\ vehicles = [v \in VehicleIds |-> NewVehicle(as[v])]
    /\ events = << >>
    /\ arrived = {0, 1}
    /\ waiting_vehicles \in {<<0, 1>>, <<1, 0>>}
    /\ completed_vehicles = << >>
    /\ failed_vehicles = << >>
    /\ stats = [completed_count |-> 0, failed_count |-> 0, total_waiting_time |-> 0,
                total_charging_time |-> 0, battery_swaps |-> 0,
                area_coverage |-> [z \in ZoneNames |-> 0],
                robot_utilization |-> [r \in RobotIds |-> 0]]
    /\ last_assignment_time = 0
    /\ assignment_cache = 0
    /\ GeneratorDone
    /\ training_episodes = 0
    /\ epsilon = InitialEpsilon
    /\ q_table = {}
    /\ q_rewards = << >>
    /\ phase = "dispatching"

\* One call of the policy on the tables.
ApplyPolicy(strategy) ==
    /\ phase = "dispatching"
    /\ scheduling_strategy = strategy
    /\ SetTables(Dispatch(Tables, current_time, IdleRobots(Tables), strategy))
    /\ phase' = "dispatched"
    /\ UNCHANGED <<current_time, events, arrived, failed_vehicles, last_assignment_time,
                   assignment_cache, scheduling_strategy, scale, efficiency_stream,
                   action_stream, minute, vehicles_per_minute, training_episodes,
                   epsilon, q_table, q_rewards>>

AssignNearestFirst == ApplyPolicy("nearest_first")

AssignEarliestDeadlineFirst == ApplyPolicy("earliest_deadline_first")

\* One call of assign_tasks on the tables: the priorities are brought up to
\* the clock, then the policy is called.
ApplyAssignTasks(strategy) ==
    /\ phase = "dispatching"
    /\ scheduling_strategy = strategy
    /\ AssignTasksBase(current_time)
    /\ phase' = "dispatched"
    /\ UNCHANGED <<current_time, events, arrived, failed_vehicles, scheduling_strategy,
                   scale, efficiency_stream, action_stream, minute, vehicles_per_minute,
                   training_episodes, epsilon, q_table, q_rewards>>

AssignMostUrgentFirst == ApplyAssignTasks("most_urgent_first")

PolicyNext ==
    \/ AssignNearestFirst
    \/ AssignEarliestDeadlineFirst
    \/ AssignMostUrgentFirst

PolicySpec == PolicyInit /\ [][PolicyNext]_vars

\* ------------------------------------------------------ hybrid policy alone

\* assign_tasks under "hybrid_strategy" at minute 30, applied to tables in which
\* robots 0 and 1 stand idle at their home stations with 60, 28 or 16 kWh in
\* their batteries and vehicles 0 and 1 wait since minute 0 or 20, each 16 m or
\* 400 m from a station; the zone counts stand at 2 or 10 arrivals.
HybridClock == 30
HybridCharges == {KWh(60), KWh(28), KWh(16)}
HybridPositions == {<<900, 116>>, <<900, 500>>, <<900, 884>>}
HybridNeeds == {[stay_duration |-> 60, initial_charge |-> KWh(50), required_charge |-> KWh(60)],
                [stay_duration |-> 100, initial_charge |-> KWh(15), required_charge |-> KWh(60)],
                [stay_duration |-> 200, initial_charge |-> KWh(50), required_charge |-> KWh(60)]}

HybridArrivals(v) ==
    IF v <= 1
    THEN {a \in {[arrival_time |-> m, position |-> p, stay_duration |-> n.stay_duration,
                  initial_charge |-> n.initial_charge,
                  required_charge |-> n.required_charge] :
                     m \in {0, 20}, p \in HybridPositions, n \in HybridNeeds} :
             GeneratorAllows(a)}
    ELSE {[arrival_time |-> 20, position |-> <<900, 116>>, stay_duration |-> 60,
           initial_charge |-> KWh(50), required_charge |-> KWh(60)]}

HybridCoverage ==
    {[z \in ZoneNames |-> IF z = "zone2" THEN a ELSE IF z = "zone4" THEN b ELSE 0] :
        a \in {2, 10}, b \in {2, 10}}

HybridInit ==
    /\ current_time = HybridClock
    /\ scheduling_strategy = "hybrid_strategy"
    /\ scale \in PROBLEM_SCALES
    /\ efficiency_stream = <<95, 95>>
    /\ action_stream = <<0, 0>>
    /\ \E homes \in [RobotIds -> RobotHomes], charge \in [RobotIds -> HybridCharges] :
          /\ \A r \in RobotIds : r >= 2 => homes[r] = CHARGING_STATIONS[2]
                                           /\ charge[r] = KWh(60)
          /\ robots = [r \in RobotIds |->
                          IF r <= 1 THEN NewRobot(r, homes[r])
                          ELSE [NewRobot(r, homes[r]) EXCEPT
                                   !.status = "returning",
                                   !.position = <<900, 500>>]]
          /\ batteries = [b \in BatteryIds |->
                             IF b < RobotsCount
                             THEN [NewBattery(b, homes) EXCEPT !.current_charge = charge[b]]
                             ELSE NewBattery(b, homes)]
    /\ \E as \in [VehicleIds -> UNION {HybridArrivals(v) : v \in VehicleIds}] :
          /\ \A v \in VehicleIds : as[v] \in HybridArrivals(v)
          /\ vehicles = [v \in VehicleIds |-> NewVehicle(as[v])]
    /\ events = << >>
    /\ arrived = {0, 1}
    /\ waiting_vehicles = <<0, 1>>
    /\ completed_vehicles = << >>
    /\ failed_vehicles = << >>
    /\ \E coverage \in HybridCoverage :
          stats = [completed_count |-> 0, failed_count |-> 0, total_waiting_time |-> 0,
                   total_charging_time |-> 0, battery_swaps |-> 0,
                   area_coverage |-> coverage,
                   robot_utilization |-> [r \in RobotIds |-> 0]]
    /\ last_assignment_time = 0
    /\ assignment_cache = 0
    /\ GeneratorDone
    /\ training_episodes = 0
    /\ epsilon = InitialEpsilon
    /\ q_table = {}
    /\ q_rewards = << >>
    /\ phase = "dispatching"

AssignHybridStrategy == ApplyAssignTasks("hybrid_strategy")

HybridNext == AssignHybridStrategy

HybridSpec == HybridInit /\ [][HybridNext]_vars

\* ================================================================== claims

Idle15(r) ==
    /\ robots[r].status = "idle"
    /\ robots[r].battery # None
    /\ batteries[robots[r].battery].current_charge > KWh(15)

\* A step assigns robot r: it enters moving_to_vehicle.
Assigns(r) ==
    robots[r].status # "moving_to_vehicle" /\ robots'[r].status = "moving_to_vehicle"

\* t + distance(r, v) / speed + needed_charge_time(v) <= v.departure, in 1/720000 min.
TimeBudgetHolds(r, v, t) ==
    720000 * t + 90000 * Abs(robots[r].position[2] - vehicles[v].position[2])
        + needed_charge_time(vehicles[v])
      <= 720000 * vehicles[v].departure_time

\* charge > 1.3 * (trip_out + 0.5 * (required - current) + trip_back), trip_back
\* from where the robot stands to its nearest station; trip energy = distance / 8
\* * 0.04 kWh = 20 units per metre; both sides times 20.
EnergyBudgetHolds(r, v) ==
    LET p == robots[r].position
        out == 20 * Abs(p[2] - vehicles[v].position[2])
        back == 20 * Abs(p[2] - find_nearest_charging_station(p)[2])
        need == vehicles[v].required_charge - vehicles[v].current_charge
    IN  20 * batteries[robots[r].battery].current_charge > 13 * (2 * out + need + 2 * back)

\* C1: whenever a dispatch path (a policy of assign_tasks or the emergency path
\* of the arrival handler) assigns robot r to vehicle v at clock t, r was idle
\* with a battery above 15 kWh, the time budget held, and, on every path but
\* the hybrid policy, the energy budget with margin 1.3 held.
C1_AssignmentIsFeasible ==
    [][\A r \in RobotIds :
          Assigns(r) =>
             LET v == robots'[r].target_vehicle
             IN  /\ v \in VehicleIds
                 /\ Idle15(r)
                 /\ TimeBudgetHolds(r, v, current_time')
                 /\ (scheduling_strategy # "hybrid_strategy" \/ arrived' # arrived)
                       => EnergyBudgetHolds(r, v)]_vars

C1_Witness ==
    \E r \in RobotIds :
        /\ robots[r].status = "moving_to_vehicle"
        /\ robots[r].target_vehicle \in VehicleIds
        /\ vehicles[robots[r].target_vehicle].status = "assigned"

\* The minutes (in 1/720000) a noise-free charge from cur to req takes: the integral
\* of 1 / f over [cur, req], f = 2.5 below 50 kWh, 1.8 below 80 kWh, 0.8 above.
ChargeIntegral(cur, req) ==
    LET Band(lo, hi) == Max(0, Min(req, hi) - Max(cur, lo))
    IN  72 * Band(0, KWh(50)) + 100 * Band(KWh(50), KWh(80)) + 225 * Band(KWh(80), KWh(100))

\* C2: for every vehicle with 0 <= current <= required <= 100, needed_charge_time
\* equals the piecewise integral of 1/f from current to required.
C2_NeededChargeTimeIsIntegral ==
    \A v \in VehicleIds :
        (0 <= vehicles[v].current_charge
            /\ vehicles[v].current_charge <= vehicles[v].required_charge
            /\ vehicles[v].required_charge <= KWh(100))
          => needed_charge_time(vehicles[v])
                = ChargeIntegral(vehicles[v].current_charge, vehicles[v].required_charge)

\* A step in which robot r, charging vehicle v, stops charging it although v is
\* neither completed nor failed afterwards.
StopsCharging(r, v) ==
    /\ robots[r].status = "charging_vehicle"
    /\ robots[r].target_vehicle = v
    /\ robots'[r].status # "charging_vehicle"
    /\ vehicles'[v].status \notin {"completed", "failed"}

\* C3: a robot that drains its battery while charging a vehicle that still
\* needs energy keeps charging until the battery has reached 8 kWh, and then
\* abandons: the vehicle is waiting again and back in the waiting queue, and
\* the robot is returning.
C3_DepletionAbandonsAtEight ==
    [][\A r \in RobotIds : \A v \in VehicleIds :
          StopsCharging(r, v) =>
             /\ batteries[robots[r].battery].current_charge <= KWh(8)
             /\ vehicles'[v].status = "waiting"
             /\ Contains(waiting_vehicles', v)
             /\ robots'[r].status = "returning"]_vars

\* A step in which robot r gives up its target v without completing it.
AbandonsTask(r, v) ==
    /\ robots[r].target_vehicle = v
    /\ robots[r].status \in {"moving_to_vehicle", "charging_vehicle"}
    /\ robots'[r].status \notin {"moving_to_vehicle", "charging_vehicle"}
    /\ vehicles'[v].status # "completed"

\* C4: whenever a handler makes a robot abandon its task, at the end of that
\* handler robot.target_vehicle and vehicle.assigned_robot are both none, and
\* the vehicle, unless completed or failed, is waiting and in the waiting queue.
C4_AbandonmentRestoresVehicle ==
    [][\A r \in RobotIds : \A v \in VehicleIds :
          AbandonsTask(r, v) =>
             /\ robots'[r].target_vehicle = None
             /\ vehicles'[v].assigned_robot = None
             /\ vehicles'[v].status \notin {"completed", "failed"}
                   => /\ vehicles'[v].status = "waiting"
                      /\ Contains(waiting_vehicles', v)]_vars

\* C5 as stated: when run() has ended, completed_count + failed_count is the
\* number of arrived vehicles whose departure minute is <= the final clock.
C5_CountsDepartedVehicles ==
    phase = "done" =>
        stats.completed_count + stats.failed_count
            = Cardinality({v \in arrived : vehicles[v].departure_time <= current_time})

\* C5: when run() has ended, completed_count + failed_count is the number of
\* arrived vehicles that are completed or whose departure minute is before
\* the final clock.
C5_CountsSettledVehicles ==
    phase = "done" =>
        stats.completed_count + stats.failed_count
            = Cardinality({v \in arrived :
                  \/ vehicles[v].status = "completed"
                  \/ vehicles[v].departure_time < current_time})

C5_Witness ==
    /\ phase = "done"
    /\ \E v \in arrived : vehicles[v].status = "completed"
                             /\ vehicles[v].departure_time > current_time
    /\ \E v \in arrived : vehicles[v].status = "failed"

\* C6: every vehicle with status completed has current_charge >= required_charge.
C6_CompletedIsCharged ==
    \A v \in VehicleIds :
        vehicles[v].status = "completed"
            => vehicles[v].current_charge >= vehicles[v].required_charge

C6_Witness ==
    \E v \in VehicleIds :
        /\ vehicles[v].status = "completed"
        /\ vehicles[v].current_charge > vehicles[v].initial_charge
        /\ Contains(completed_vehicles, v)

\* C7: a vehicle is failed only when the clock has reached its departure
\* minute and it is not completed; a vehicle whose departure minute lies
\* beyond the horizon is never failed.
C7_FailedOnlyAfterDeparture ==
    \A v \in VehicleIds :
        /\ vehicles[v].status = "failed"
              => /\ current_time >= vehicles[v].departure_time
                 /\ ~Contains(completed_vehicles, v)
        /\ vehicles[v].departure_time > MAX_SIM_TIME
              => /\ vehicles[v].status # "failed"
                 /\ ~Contains(failed_vehicles, v)

C7_Witness ==
    /\ phase = "done"
    /\ \E v \in arrived : vehicles[v].status = "failed"
    /\ \E v \in arrived : /\ vehicles[v].departure_time > MAX_SIM_TIME
                          /\ vehicles[v].status # "completed"

\* C8: every robot with status charging_vehicle has a target vehicle, stands
\* at the target's position, and the target's status is charging.
C8_ChargingRobotIsAtChargingTarget ==
    \A r \in RobotIds :
        robots[r].status = "charging_vehicle"
            => /\ robots[r].target_vehicle \in VehicleIds
               /\ robots[r].position = vehicles[robots[r].target_vehicle].position
               /\ vehicles[robots[r].target_vehicle].status = "charging"

C8_Witness ==
    \E r \in RobotIds :
        /\ robots[r].status = "charging_vehicle"
        /\ stats.battery_swaps > 0

\* C9: every battery has 0 <= current_charge <= max_capacity, and every
\* battery in use is held by exactly one robot, which is its assigned_robot.
C9_BatteryBoundsAndHolder ==
    \A b \in BatteryIds :
        /\ 0 <= batteries[b].current_charge
        /\ batteries[b].current_charge <= MaxCapacity
        /\ batteries[b].status = "in-use"
              => /\ Cardinality({r \in RobotIds : robots[r].battery = b}) = 1
                 /\ batteries[b].assigned_robot \in RobotIds
                 /\ robots[batteries[b].assigned_robot].battery = b

C9_Witness ==
    /\ stats.battery_swaps > 0
    /\ \E b \in BatteryIds : batteries[b].status = "charging"
    /\ \E b \in BatteryIds : batteries[b].status = "in-use"
                                /\ batteries[b].current_charge < MaxCapacity

\* C10: every vehicle has 0 <= current_charge <= 100 kWh at all times, and
\* no step lowers a vehicle's current_charge.
C10_VehicleEnergyBoundedMonotone ==
    /\ [](\A v \in VehicleIds : /\ 0 <= vehicles[v].current_charge
                                /\ vehicles[v].current_charge <= KWh(100))
    /\ [][\A v \in VehicleIds :
             vehicles'[v].current_charge >= vehicles[v].current_charge]_vars

C10_Witness ==
    \E v \in VehicleIds :
        /\ vehicles[v].status = "charging"
        /\ vehicles[v].current_charge > KWh(80)
        /\ vehicles[v].current_charge > vehicles[v].initial_charge

\* A step of run() that handles the event at the head of the heap, of this kind.
Handles(kind) ==
    /\ phase = "running" /\ phase' = "running"
    /\ events' # events
    /\ events[1].kind = kind

Pending == {events[i] : i \in 2 .. Len(events)}

\* C11: at any minute, every vehicle_arrival and vehicle_departure event of
\* that minute is handled before the assign_tasks event of that minute: when
\* assign_tasks is handled, no arrival or departure of its minute is pending.
C11_ArrivalsBeforeAssignment ==
    [][Handles("assign_tasks") =>
          \A f \in Pending :
              f.kind \in {"vehicle_arrival", "vehicle_departure"} => f.time # events[1].time]_vars

\* The kind order the specification states; task_completion and battery_charged
\* events are never posted.
StatedKindOrder == <<"update_status", "update_priorities", "vehicle_arrival",
                     "task_completion", "battery_charged", "vehicle_departure",
                     "assign_tasks">>

StatedRank(kind) == CHOOSE i \in 1 .. Len(StatedKindOrder) : StatedKindOrder[i] = kind

\* f was inserted before e, where the state tells: arrival events are pushed in
\* the order of the ids, and a departure event is pushed when its vehicle arrives.
InsertedBefore(f, e) ==
    \/ f.kind = "vehicle_arrival" /\ f.vehicle < e.vehicle
    \/ f.kind = "vehicle_departure"
          /\ vehicles[f.vehicle].arrival_time < vehicles[e.vehicle].arrival_time

\* C12: events are handled in non-decreasing order of time; events of one
\* minute in the stated kind order; events of one minute and kind in the
\* order of insertion.  No pending event should have come before the one handled.
C12_StatedEventOrder ==
    [][\A kind \in SeqToSet(KindOrder) :
          Handles(kind) =>
             /\ current_time <= events[1].time
             /\ \A f \in Pending :
                   /\ f.time >= events[1].time
                   /\ f.time = events[1].time
                         => /\ StatedRank(f.kind) >= StatedRank(kind)
                            /\ f.kind = kind => ~InsertedBefore(f, events[1])]_vars

\* C13: run() terminates; once the clock has reached the horizon no further
\* event is handled, so at most one event of a minute >= the horizon is
\* handled, and no handler runs at a clock beyond the horizon.
C13_RunTerminatesAtHorizon ==
    /\ <>(phase = "done")
    /\ [](current_time <= MAX_SIM_TIME)
    /\ [][current_time >= MAX_SIM_TIME
             => /\ events' = events
                /\ current_time' = current_time
                /\ robots' = robots /\ vehicles' = vehicles /\ batteries' = batteries]_vars

C13_Witness ==
    /\ phase = "done"
    /\ current_time = MAX_SIM_TIME
    /\ events # << >>
    /\ \A i \in 1 .. Len(events) : events[i].time >= MAX_SIM_TIME

\* Robot r passes the checks of the emergency path for vehicle v at clock t.
EmergencyFeasible(r, v, t) ==
    Idle15(r) /\ TimeBudgetHolds(r, v, t) /\ EnergyBudgetHolds(r, v)

DistanceToVehicle(r, v) == distance_to(robots[r].position, vehicles[v].position)

\* C14: when the arrival of vehicle v is handled at clock t with
\* departure - t < 60 and some idle robot with a battery above 15 kWh is
\* feasible for it, then when the handler returns v is assigned, and its robot
\* is a feasible idle robot at the least distance, now moving_to_vehicle.
C14_EmergencyAssignsNearest ==
    [][Handles("vehicle_arrival") =>
          LET v == events[1].vehicle
              t == events[1].time
              feasible == {r \in RobotIds : EmergencyFeasible(r, v, t)}
          IN  (vehicles[v].departure_time - t < 60 /\ feasible # {})
                 => /\ vehicles'[v].status = "assigned"
                    /\ vehicles'[v].assigned_robot \in feasible
                    /\ LET r == vehicles'[v].assigned_robot
                       IN  /\ robots'[r].status = "moving_to_vehicle"
                           /\ robots'[r].target_vehicle = v
                           /\ \A q \in feasible :
                                 DistanceToVehicle(r, v) <= DistanceToVehicle(q, v)]_vars

\* A vehicle is assigned in its arrival minute (assign_tasks of that minute ran
\* before the arrival, so the emergency path assigned it), while a second idle
\* robot, farther away, passes the checks as well.
C14_Witness ==
    \E v \in arrived :
        /\ current_time = vehicles[v].arrival_time
        /\ vehicles[v].departure_time - current_time < 60
        /\ vehicles[v].status = "assigned"
        /\ robots[vehicles[v].assigned_robot].status = "moving_to_vehicle"
        /\ \E q \in RobotIds :
              /\ EmergencyFeasible(q, v, current_time)
              /\ DistanceToVehicle(q, v) > DistanceToVehicle(vehicles[v].assigned_robot, v)

\* Robot r is the one idle robot, and the two waiting vehicles both pass its
\* time check and its energy check at the clock.
OneIdleTwoFeasible(r) ==
    /\ \A q \in RobotIds : Idle15(q) <=> q = r
    /\ Len(waiting_vehicles) = 2
    /\ waiting_vehicles[1] # waiting_vehicles[2]
    /\ \A i \in 1 .. 2 :
          /\ TimeBudgetHolds(r, waiting_vehicles[i], current_time)
          /\ EnergyBudgetHolds(r, waiting_vehicles[i])

\* C15: with one idle robot and two waiting vehicles that are both feasible
\* for it, nearest_first assigns the robot to a vehicle no farther than the
\* other, and earliest_deadline_first to a vehicle that leaves no later than
\* the other, whatever the distances.
C15_PolicyChoice ==
    [][\A r \in RobotIds :
          (phase = "dispatching" /\ OneIdleTwoFeasible(r)) =>
             LET v == robots'[r].target_vehicle
             IN  /\ robots'[r].status = "moving_to_vehicle"
                 /\ \E i \in 1 .. 2 : waiting_vehicles[i] = v
                 /\ vehicles'[v].assigned_robot = r
                 /\ \A i \in 1 .. 2 :
                       LET w == waiting_vehicles[i]
                       IN  /\ scheduling_strategy = "nearest_first"
                                => DistanceToVehicle(r, v) <= DistanceToVehicle(r, w)
                           /\ scheduling_strategy = "earliest_deadline_first"
                                => vehicles[v].departure_time <= vehicles[w].departure_time]_vars

\* earliest_deadline_first has sent the robot to the vehicle that leaves
\* earlier although the other one, still waiting and within the robot's
\* budgets, stood nearer to the robot's station.
C15_Witness ==
    /\ phase = "dispatched"
    /\ scheduling_strategy = "earliest_deadline_first"
    /\ \E r \in RobotIds, v, w \in VehicleIds :
          /\ robots[r].status = "moving_to_vehicle"
          /\ robots[r].target_vehicle = v
          /\ waiting_vehicles = <<w>>
          /\ vehicles[v].departure_time < vehicles[w].departure_time
          /\ DistanceToVehicle(r, v) > DistanceToVehicle(r, w)
          /\ TimeBudgetHolds(r, w, current_time)

UnknownConfiguration ==
    scale \notin PROBLEM_SCALES \/ scheduling_strategy \notin Strategies

\* C16: a simulator made with an unknown scale or an unknown policy name is
\* aborted at setup and never simulates.
C16_UnknownConfigurationIsFatal ==
    UnknownConfiguration => phase = "aborted"

\* C17: a robot that holds no battery is idle or returning, and no step sends
\* a robot without a battery to a vehicle.
C17_BatterylessRobotIsIdleOrReturning ==
    /\ [](\A r \in RobotIds :
             robots[r].battery = None => robots[r].status \in {"idle", "returning"})
    /\ [][\A r \in RobotIds : Assigns(r) => robots[r].battery # None]_vars

\* A robot left its battery at a station that had none above 45 kWh to give,
\* and waits there, idle, while a vehicle waits for a robot.
C17_Witness ==
    \E r \in RobotIds :
        /\ robots[r].battery = None
        /\ robots[r].status = "idle"
        /\ waiting_vehicles # << >>

\* What a step of run() may change, as one value.
RunState ==
    [current_time |-> current_time, events |-> events, tables |-> Tables,
     arrived |-> arrived, failed_vehicles |-> failed_vehicles,
     last_assignment_time |-> last_assignment_time,
     assignment_cache |-> assignment_cache, phase |-> phase]

\* The tables and the cache one assign_tasks pass at clock t leaves, as a
\* function of the state: of the tables, the policy name and, for "rl", the
\* draws of the run's stream.
AssignTasksOutcome(t) ==
    LET kept == [tables |-> Tables, last_assignment_time |-> last_assignment_time,
                 assignment_cache |-> assignment_cache]
        S1 == update_vehicle_priorities(Tables, t)
        idle == IdleRobots(S1)
    IN  IF scheduling_strategy # "rl" /\ CacheFresh(t) THEN kept
        ELSE IF S1.waiting = << >> \/ idle = << >> THEN [kept EXCEPT !.tables = S1]
        ELSE IF scheduling_strategy = "rl"
        THEN [kept EXCEPT !.tables = assign_rl_tasks(S1, t, idle, ActionDraws(t))]
        ELSE LET S2 == Dispatch(S1, t, idle, scheduling_strategy)
             IN  [tables |-> S2, last_assignment_time |-> t,
                  assignment_cache |-> Len(S2.waiting)]

\* The one state the next step of run() leads to, as a function of the state
\* the run is in: of its tables, its heap, its configuration and its draws.
DeterminedSuccessor ==
    IF ~LoopCondition
    THEN [RunState EXCEPT
             !.phase = "done",
             !.tables.stats.robot_utilization =
                 [r \in RobotIds |->
                     Cardinality({i \in 1 .. Len(completed_vehicles) :
                         vehicles[completed_vehicles[i]].assigned_robot = r})]]
    ELSE LET e == events[1]
             t == e.time
             popped == [RunState EXCEPT !.current_time = t]
             rest == heappop(vehicles, events)
         IN  CASE e.kind = "vehicle_arrival" ->
                    LET S == handle_vehicle_arrival(Tables, e.vehicle, t)
                        prioritised == [vehicles EXCEPT ![e.vehicle].priority =
                                           update_priority(vehicles[e.vehicle], t)]
                    IN  [popped EXCEPT
                            !.tables = S,
                            !.arrived = @ \cup {e.vehicle},
                            !.events = heappush(prioritised, rest, DepartureEvent(e.vehicle))]
               [] e.kind = "vehicle_departure" ->
                    LET out == handle_vehicle_departure(Tables, failed_vehicles, e.vehicle)
                    IN  [popped EXCEPT !.tables = out.S,
                                       !.failed_vehicles = out.failed,
                                       !.events = rest]
               [] e.kind = "update_status" ->
                    LET S == update_status(Tables, t, EfficiencyDraws(t), scheduling_strategy)
                    IN  [popped EXCEPT
                            !.tables = S,
                            !.events = heappush(S.vehicles, rest,
                                                Event(t + 1, "update_status", None))]
               [] e.kind = "update_priorities" ->
                    LET S == update_vehicle_priorities(Tables, t)
                    IN  [popped EXCEPT
                            !.tables = S,
                            !.events = heappush(S.vehicles, rest,
                                                Event(t + 5, "update_priorities", None))]
               [] e.kind = "assign_tasks" ->
                    LET out == AssignTasksOutcome(t)
                    IN  [popped EXCEPT
                            !.tables = out.tables,
                            !.last_assignment_time = out.last_assignment_time,
                            !.assignment_cache = out.assignment_cache,
                            !.events = heappush(out.tables.vehicles, rest,
                                                Event(t + 2, "assign_tasks", None))]

Period(kind) ==
    CASE kind = "update_status" -> 1
      [] kind = "update_priorities" -> 5
      [] kind = "assign_tasks" -> 2

PeriodicKinds == {"update_status", "update_priorities", "assign_tasks"}

PendingOf(kind) == {i \in 1 .. Len(events) : events[i].kind = kind}

\* C19: handling a periodic event at minute t posts the event of its kind for
\* minute t + period: 1 for update_status, 5 for update_priorities, 2 for
\* assign_tasks.  One event of each kind is pending at any time, the
\* update_status event is never more than a minute ahead of the clock, and
\* the clock leaves a minute only with update_status posted for the next: so
\* update_status is handled at every minute from 1 on that the loop completes
\* (at the horizon minute itself the loop handles one event and stops).
C19_PeriodicEventsRepost ==
    /\ [][\A kind \in PeriodicKinds :
             Handles(kind) =>
                \E i \in 1 .. Len(events') :
                    events'[i] = Event(events[1].time + Period(kind), kind, None)]_vars
    /\ [](/\ \A kind \in PeriodicKinds : Cardinality(PendingOf(kind)) = 1
          /\ \A i \in PendingOf("update_status") :
                events[i].time \in {current_time, current_time + 1})
    /\ [][current_time' > current_time =>
             \A i \in PendingOf("update_status") : events[i].time = current_time + 1]_vars

\* The run has ended at the horizon with each periodic event posted for the
\* minute its period gives: update_status for the horizon, update_priorities
\* for the next multiple of five plus one, assign_tasks for the next even minute.
C19_Witness ==
    /\ phase = "done"
    /\ current_time = MAX_SIM_TIME
    /\ \A i \in PendingOf("update_status") : events[i].time \in {MAX_SIM_TIME, MAX_SIM_TIME + 1}
    /\ \A i \in PendingOf("update_priorities") : events[i].time % 5 = 1
    /\ \A i \in PendingOf("assign_tasks") : events[i].time % 2 = 0

\* C20: a battery charging at a station becomes available in the first tick
\* that brings its charge to 95% of its capacity or more: between events no
\* battery at a station is charging with a charge of 95% or more.
C20_ChargedBatteryBecomesAvailable ==
    \A b \in BatteryIds :
        (batteries[b].status = "charging" /\ IsStation(batteries[b].location))
            => 100 * batteries[b].current_charge < 95 * MaxCapacity

\* C21: every battery that is available or charging lies at its own home
\* charging station.
C21_RestingBatteryIsAtHome ==
    \A b \in BatteryIds :
        batteries[b].status \in {"available", "charging"}
            => batteries[b].location = batteries[b].charging_station

\* C22: handling the departure of vehicle v.  If v is not completed it
\* becomes failed, failed_count grows by exactly 1, every robot that still
\* targets v loses its target and is returning, and v is not in the waiting
\* queue.  If v is completed, no vehicle, robot, battery or counter changes.
C22_DepartureFailsOrLeaves ==
    [][Handles("vehicle_departure") =>
          LET v == events[1].vehicle
          IN  IF vehicles[v].status # "completed"
              THEN /\ vehicles'[v].status = "failed"
                   /\ stats'.failed_count = stats.failed_count + 1
                   /\ stats'.completed_count = stats.completed_count
                   /\ \A r \in RobotIds :
                         robots[r].target_vehicle = v
                            => /\ robots'[r].target_vehicle = None
                               /\ robots'[r].status = "returning"
                   /\ ~Contains(waiting_vehicles', v)
              ELSE /\ vehicles' = vehicles
                   /\ robots' = robots
                   /\ batteries' = batteries
                   /\ stats' = stats
                   /\ waiting_vehicles' = waiting_vehicles
                   /\ failed_vehicles' = failed_vehicles]_vars

\* A vehicle has just departed, failed, in the middle of its charge: the robot
\* that was charging it stands at its side, released and returning.
C22_Witness ==
    \E v \in arrived, r \in RobotIds :
        /\ vehicles[v].status = "failed"
        /\ current_time = vehicles[v].departure_time
        /\ vehicles[v].charging_start_time # None
        /\ vehicles[v].assigned_robot = None
        /\ robots[r].status = "returning"
        /\ robots[r].target_vehicle = None
        /\ robots[r].position = vehicles[v].position

\* The vehicles whose charge a step brings from below the required energy to it.
ChargeMet == {v \in VehicleIds : /\ vehicles[v].status = "charging"
                                 /\ vehicles[v].current_charge < vehicles[v].required_charge
                                 /\ vehicles'[v].current_charge >= vehicles[v].required_charge}

\* C23: in the update_status tick at clock t that brings the energy of a
\* charging vehicle to its required energy, the vehicle is completed with
\* charging_end = t, its robot is returning without a target, and the tick
\* adds to completed_count 1, to total_waiting_time charging_start - arrival,
\* and to total_charging_time t - charging_start, for each such vehicle and
\* for nothing else.
C23_CompletionIsRecorded ==
    [][Handles("update_status") =>
          LET t == events[1].time
          IN  /\ \A v \in ChargeMet :
                    /\ vehicles'[v].status = "completed"
                    /\ vehicles'[v].charging_end_time = t
                    /\ Contains(completed_vehicles', v)
                    /\ vehicles[v].charging_start_time # None
                    /\ \A r \in RobotIds :
                          (robots[r].status = "charging_vehicle" /\ robots[r].target_vehicle = v)
                             => /\ robots'[r].status = "returning"
                                /\ robots'[r].target_vehicle = None
              /\ stats'.completed_count = stats.completed_count + Cardinality(ChargeMet)
              /\ stats'.total_waiting_time = stats.total_waiting_time
                    + SumOver([v \in VehicleIds |->
                                  vehicles[v].charging_start_time - vehicles[v].arrival_time],
                              ChargeMet)
              /\ stats'.total_charging_time = stats.total_charging_time
                    + SumOver([v \in VehicleIds |-> t - vehicles[v].charging_start_time],
                              ChargeMet)]_vars

\* A charge was completed in the tick of this minute, after a wait: the
\* vehicle has its end minute, the totals hold its times, and the robot
\* stands at its side, returning.
C23_Witness ==
    \E v \in arrived, r \in RobotIds :
        /\ vehicles[v].status = "completed"
        /\ vehicles[v].charging_end_time = current_time
        /\ vehicles[v].charging_start_time > vehicles[v].arrival_time
        /\ stats.completed_count = 1
        /\ stats.total_waiting_time = vehicles[v].charging_start_time - vehicles[v].arrival_time
        /\ stats.total_charging_time = current_time - vehicles[v].charging_start_time
        /\ robots[r].status = "returning"
        /\ robots[r].target_vehicle = None
        /\ robots[r].position = vehicles[v].position

\* Robot r completes its task in this step with less than 10 kWh left.
CompletesDepleted(r) ==
    /\ robots[r].status = "charging_vehicle"
    /\ robots[r].target_vehicle \in ChargeMet
    /\ robots[r].battery # None
    /\ batteries'[robots[r].battery].current_charge < KWh(10)

\* C24: under every policy, "rl" included, a robot whose task completes while
\* its battery holds less than 10 kWh is put at its nearest station by the
\* completion, in the same tick.
C24_DepletedRobotRetreats ==
    [][Handles("update_status") =>
          \A r \in RobotIds :
              CompletesDepleted(r)
                 => robots'[r].position = find_nearest_charging_station(robots[r].position)]_vars

\* C25: most_urgent_first takes the waiting vehicles in descending priority:
\* with one idle robot and two waiting vehicles that are both feasible for it,
\* the robot is sent to a vehicle whose priority, as updated at the clock, is
\* not below the other's.
C25_MostUrgentServedFirst ==
    [][\A r \in RobotIds :
          (/\ phase = "dispatching"
           /\ scheduling_strategy = "most_urgent_first"
           /\ OneIdleTwoFeasible(r)) =>
             LET v == robots'[r].target_vehicle
             IN  /\ robots'[r].status = "moving_to_vehicle"
                 /\ \E i \in 1 .. 2 : waiting_vehicles[i] = v
                 /\ \A i \in 1 .. 2 :
                       LET w == waiting_vehicles[i]
                       IN  ~PriorityLess(update_priority(vehicles[v], current_time),
                                         update_priority(vehicles[w], current_time))]_vars

\* Robot r holds a battery with less than 10 kWh.
HoldsLow(r) ==
    /\ robots[r].battery # None
    /\ batteries[robots[r].battery].current_charge < KWh(10)

\* The batteries that lie available at position p with more than `above` units.
LyingAt(p, above) ==
    {b \in BatteryIds : /\ batteries[b].status = "available"
                        /\ batteries[b].location = p
                        /\ batteries[b].current_charge > above}

\* After the step robot r holds one of the batteries of `lying`, or holds none
\* because the other robots took them all.
TakesOneOf(r, lying) ==
    \/ /\ robots'[r].battery \in lying
       /\ batteries'[robots'[r].battery].status = "in-use"
       /\ batteries'[robots'[r].battery].assigned_robot = r
       /\ batteries'[robots'[r].battery].location = robots[r].position
    \/ /\ robots'[r].battery = None
       /\ robots'[r].status = "idle"
       /\ \A b \in lying : batteries'[b].assigned_robot \in RobotIds \ {r}

\* The robots that leave a battery below 10 kWh at a station and take another.
Swapping ==
    {r \in RobotIds : /\ HoldsLow(r)
                      /\ IsStation(robots[r].position)
                      /\ robots'[r].battery # None}

\* C26: in a tick, a robot holding a battery below 10 kWh at a station leaves
\* it there, charging and without owner, and takes an available battery of that
\* station above 45 kWh if there is one (a swap is counted), else holds none and
\* is idle; away from a station it moves one tick toward the nearest station
\* and is returning. A robot without battery takes an available battery lying
\* at its position if there is one, else stays idle.
C26_LowBatteryIsSwapped ==
    [][Handles("update_status") =>
          /\ \A r \in RobotIds :
                LET p == robots[r].position
                    old == robots[r].battery
                IN  /\ (HoldsLow(r) /\ IsStation(p)) =>
                          /\ batteries'[old].status = "charging"
                          /\ batteries'[old].location = p
                          /\ batteries'[old].assigned_robot = None
                          /\ robots'[r].battery # old
                          /\ robots'[r].position = p
                          /\ TakesOneOf(r, LyingAt(p, KWh(45)))
                    /\ (HoldsLow(r) /\ ~IsStation(p)) =>
                          /\ robots'[r].position =
                                MovedPosition(p, find_nearest_charging_station(p))
                          /\ robots'[r].status = "returning"
                          /\ robots'[r].battery = old
                    /\ old = None =>
                          /\ robots'[r].position = p
                          /\ TakesOneOf(r, LyingAt(p, 0 - 1))
          /\ stats'.battery_swaps = stats.battery_swaps + Cardinality(Swapping)]_vars

\* A swap has happened: a battery lies charging without owner at the station
\* where a robot stands with a battery above 45 kWh, and one swap is counted.
C26_Witness ==
    /\ stats.battery_swaps = 1
    /\ \E r \in RobotIds, old \in BatteryIds :
          /\ IsStation(robots[r].position)
          /\ robots[r].battery \notin {None, old}
          /\ batteries[robots[r].battery].current_charge > KWh(45)
          /\ batteries[robots[r].battery].assigned_robot = r
          /\ batteries[old].status = "charging"
          /\ batteries[old].assigned_robot = None
          /\ batteries[old].location = robots[r].position
          /\ batteries[old].current_charge < KWh(12)

\* charge > (trip_out + 0.5 * (required - current) + trip_back) * margin with
\* margin = clip(1.5 - charge / 60, 1.2, 1.5); the margin times 240000 and the
\* energy doubled: energy / 480000 < charge / margin.
HybridBudgetHolds(r, v) ==
    LET p == robots[r].position
        out == 20 * Abs(p[2] - vehicles[v].position[2])
        back == 20 * Abs(p[2] - find_nearest_charging_station(p)[2])
        need == vehicles[v].required_charge - vehicles[v].current_charge
        charge == batteries[robots[r].battery].current_charge
        margin == IF 360000 - charge < 288000 THEN 288000
                  ELSE IF 360000 - charge > 360000 THEN 360000
                  ELSE 360000 - charge
    IN  FracLess(2 * out + need + 2 * back, 480000, charge, margin)

\* Vehicle v waits and passes robot r's time check and hybrid energy check.
HybridFeasible(r, v) ==
    /\ Contains(waiting_vehicles, v)
    /\ TimeBudgetHolds(r, v, current_time)
    /\ HybridBudgetHolds(r, v)

\* score * (1 - min(0.4, distance / 1000)) of w is greater than that of v, for robot r.
MatchesBetter(r, w, v) ==
    ScoreLess(MatchScore(Tables, r, v, current_time), MatchScore(Tables, r, w, current_time))

\* The step gives vehicle w to a robot other than r whose turn is not after
\* r's: its battery holds no less than r's.
TakenBefore(r, w) ==
    \E q \in RobotIds \ {r} :
        /\ Idle15(q)
        /\ robots'[q].target_vehicle = w
        /\ batteries[robots[q].battery].current_charge
              >= batteries[robots[r].battery].current_charge

\* C27: in a pass of the hybrid policy every idle robot gets, among the waiting
\* vehicles that pass its time check and its energy check with the margin
\* clip(1.5 - battery / 60, 1.2, 1.5) and were not given to a robot with more
\* charge, one of the greatest score * (1 - min(0.4, distance / 1000)); it gets
\* none only when none is left, and no vehicle is given to two robots.
C27_HybridGivesBestMatch ==
    [][(phase = "dispatching" /\ scheduling_strategy = "hybrid_strategy") =>
          /\ \A r \in RobotIds :
                Idle15(r) =>
                   IF Assigns(r)
                   THEN LET v == robots'[r].target_vehicle
                        IN  /\ HybridFeasible(r, v)
                            /\ vehicles'[v].assigned_robot = r
                            /\ vehicles'[v].status = "assigned"
                            /\ ~Contains(waiting_vehicles', v)
                            /\ \A w \in VehicleIds :
                                  (HybridFeasible(r, w) /\ MatchesBetter(r, w, v))
                                     => TakenBefore(r, w)
                   ELSE \A w \in VehicleIds : HybridFeasible(r, w) => TakenBefore(r, w)
          /\ \A r \in RobotIds : ~Idle15(r) => ~Assigns(r)
          /\ \A r, q \in RobotIds :
                (r # q /\ Assigns(r) /\ Assigns(q))
                   => robots'[r].target_vehicle # robots'[q].target_vehicle]_vars

\* The pass is over: the robot with more charge holds the vehicle that matched
\* it best, and the other robot, for which that vehicle was the better match
\* too, holds the other vehicle.
C27_Witness ==
    /\ phase = "dispatched"
    /\ scheduling_strategy = "hybrid_strategy"
    /\ \E r, q \in RobotIds, v, w \in VehicleIds :
          /\ r # q /\ v # w
          /\ robots[r].status = "moving_to_vehicle" /\ robots[r].target_vehicle = v
          /\ robots[q].status = "moving_to_vehicle" /\ robots[q].target_vehicle = w
          /\ batteries[robots[r].battery].current_charge
                > batteries[robots[q].battery].current_charge
          /\ ScoreLess(MatchScore(Tables, q, w, current_time),
                       MatchScore(Tables, q, v, current_time))
          /\ ScoreLess(MatchScore(Tables, r, w, current_time),
                       MatchScore(Tables, r, v, current_time))
          /\ ScoreLess(BaseScore(Tables, v, current_time),
                       BaseScore(Tables, w, current_time))

\* The vehicles of zone z that a robot has served so far: their charging began.
ServedIn(z) ==
    Cardinality({v \in arrived : /\ ZoneOf(vehicles[v].position) = z
                                 /\ vehicles[v].charging_start_time # None})

ServedInAll == [z \in ZoneNames |-> ServedIn(z)]

\* C28: when the hybrid policy scores the waiting vehicles, a vehicle's
\* area_balance is 1.5 exactly when its quadrant's share of the services so
\* far, counted as vehicles served, is below 80% of the fair share 1/4, and
\* 1.0 otherwise (stated where at least one vehicle has been served).
C28_AreaBalanceCountsServices ==
    [][(/\ Handles("assign_tasks")
        /\ scheduling_strategy = "hybrid_strategy"
        /\ ~CacheFresh(events[1].time)
        /\ \E r \in RobotIds : Idle15(r)
        /\ SumOver(ServedInAll, ZoneNames) >= 1) =>
          \A i \in 1 .. Len(waiting_vehicles) :
              LET v == waiting_vehicles[i]
                  z == ZoneOf(vehicles[v].position)
              IN  (AreaBalance(Tables, v) = 3)
                     <=> (5 * ServedIn(z) < SumOver(ServedInAll, ZoneNames))]_vars

\* Rates <<n, d>> and <<k, e>> are the same fraction of vehicles_per_hour.
SameRate(x, y) == x[1] * y[2] = y[1] * x[2]

\* The rate the hour of the day calls for: 1.5 / 60 in the peaks [7,10) and
\* [17,20), 1 / 180 at night, 1 / 60 otherwise.
RateOfHour(h) ==
    IF (7 <= h /\ h < 10) \/ (17 <= h /\ h < 20) THEN <<3, 120>>
    ELSE IF h >= 23 \/ h < 6 THEN <<1, 180>>
    ELSE <<1, 60>>

\* C29: for every minute m of the horizon, with h = (m / 60) mod 24, the rate
\* used for that minute is 1.5 * base / 60 when h is in [7,10) or [17,20),
\* base / 180 when h >= 23 or h < 6, and base / 60 otherwise: the peaks recur
\* on every simulated day.
C29_RateFollowsHourOfDay ==
    [][phase = "rating" =>
          SameRate(vehicles_per_minute', RateOfHour((minute \div 60) % 24))]_vars

\* C30: over any number of episodes epsilon starts at 0.15, is multiplied by
\* 0.95 only after every 5th episode, and never falls below the floor 0.05.
C30_EpsilonStaysAboveFloor ==
    /\ ~ScoreLess(epsilon, EpsilonFloor)
    /\ epsilon.num[1] = 3 /\ epsilon.den[1] = 20
    /\ Len(epsilon.num) = Len(epsilon.den)
    /\ \A i \in 2 .. Len(epsilon.num) : epsilon.num[i] = 19 /\ epsilon.den[i] = 20
    /\ Len(epsilon.num) - 1 <= training_episodes \div 5

\* C31: between events an arrived vehicle is in the waiting queue exactly when
\* its status is waiting, and no vehicle is in the waiting queue twice.
C31_WaitingQueueMatchesStatus ==
    /\ \A v \in arrived :
          (\E i \in 1 .. Len(waiting_vehicles) : waiting_vehicles[i] = v)
             <=> vehicles[v].status = "waiting"
    /\ \A i, j \in 1 .. Len(waiting_vehicles) :
          waiting_vehicles[i] = waiting_vehicles[j] => i = j

\* One vehicle has left the queue for a robot while the other still waits in it.
C31_Witness ==
    \E v, w \in arrived :
        /\ vehicles[v].status = "assigned"
        /\ vehicles[w].status = "waiting"
        /\ waiting_vehicles = <<w>>

\* The departure event of vehicle v is still in the heap.
DeparturePending(v) ==
    \E i \in 1 .. Len(events) :
        events[i].kind = "vehicle_departure" /\ events[i].vehicle = v

Settled(v) == vehicles[v].status \in {"completed", "failed"}

\* C32: an arrived vehicle whose departure event has been handled is completed
\* or failed from then on, none is waiting, assigned or charging past its
\* departure minute, and when the run is over the departure of every arrived
\* vehicle that leaves before the horizon has been handled.
C32_DepartedVehicleIsSettled ==
    \A v \in arrived :
        /\ ~DeparturePending(v) => Settled(v)
        /\ current_time > vehicles[v].departure_time => Settled(v)
        /\ (phase = "done" /\ vehicles[v].departure_time < MAX_SIM_TIME)
              => ~DeparturePending(v)

\* A vehicle was cut off by its departure while a robot was charging it, and
\* the clock has moved on.
C32_Witness ==
    \E v \in arrived :
        /\ ~DeparturePending(v)
        /\ vehicles[v].status = "failed"
        /\ vehicles[v].charging_start_time # None
        /\ vehicles[v].current_charge > vehicles[v].initial_charge
        /\ current_time > vehicles[v].departure_time + 1

\* C33: completed and failed are absorbing statuses, no vehicle is in both
\* completed_vehicles and failed_vehicles or twice in one of them, and
\* completed_count and failed_count are the lengths of the two lists.
C33_OutcomesAreFinal ==
    /\ [][\A v \in VehicleIds :
             vehicles[v].status \in {"completed", "failed"}
                => vehicles'[v].status = vehicles[v].status]_vars
    /\ [](/\ \A i \in 1 .. Len(completed_vehicles), j \in 1 .. Len(failed_vehicles) :
                 completed_vehicles[i] # failed_vehicles[j]
          /\ \A i, j \in 1 .. Len(completed_vehicles) :
                 completed_vehicles[i] = completed_vehicles[j] => i = j
          /\ \A i, j \in 1 .. Len(failed_vehicles) :
                 failed_vehicles[i] = failed_vehicles[j] => i = j
          /\ stats.completed_count = Len(completed_vehicles)
          /\ stats.failed_count = Len(failed_vehicles))

\* One vehicle has completed and left, the other has failed at its departure.
C33_Witness ==
    /\ Len(completed_vehicles) = 1
    /\ Len(failed_vehicles) = 1
    /\ vehicles[completed_vehicles[1]].status = "completed"
    /\ vehicles[failed_vehicles[1]].status = "failed"
    /\ ~DeparturePending(completed_vehicles[1])
    /\ stats.completed_count = 1
    /\ stats.failed_count = 1

\* Robot r is in the charging_vehicle branch with a battery and a target that
\* has neither completed nor failed.
ChargesTarget(r) ==
    /\ robots[r].status = "charging_vehicle"
    /\ robots[r].battery # None
    /\ robots[r].target_vehicle # None
    /\ vehicles[robots[r].target_vehicle].status \notin {"completed", "failed"}

\* C34: the energy-transfer step of the charging_vehicle branch runs only with
\* a battery of at least 10 kWh (below 10 kWh the vehicle receives nothing);
\* the transfer min(f(vehicle.current), battery - 8) is then positive and
\* leaves the battery at 8 kWh or more; and the two abandon branches are never
\* taken: no vehicle that has been under charge is waiting again.
C34_TransferLeavesReserve ==
    /\ [][Handles("update_status") =>
             \A r \in RobotIds :
                 ChargesTarget(r) =>
                    LET v == robots[r].target_vehicle
                        b == robots[r].battery
                        charge == batteries[b].current_charge
                        transfer == Min(charge_speed(vehicles[v].current_charge),
                                        charge - KWh(8))
                    IN  /\ charge < KWh(10)
                              => vehicles'[v].current_charge = vehicles[v].current_charge
                        /\ charge >= KWh(10)
                              => /\ transfer > 0
                                 /\ vehicles'[v].current_charge > vehicles[v].current_charge
                                 /\ batteries'[b].current_charge = charge - transfer
                                 /\ batteries'[b].current_charge >= KWh(8)
                        /\ vehicles'[v].status # "waiting"]_vars
    /\ [](\A v \in arrived :
              vehicles[v].status = "waiting" => vehicles[v].charging_start_time = None)

\* A transfer has left a charging robot's battery between 8 and 10 kWh.
C34_Witness ==
    \E r \in RobotIds :
        /\ ChargesTarget(r)
        /\ vehicles[robots[r].target_vehicle].current_charge
              > vehicles[robots[r].target_vehicle].initial_charge
        /\ batteries[robots[r].battery].current_charge >= KWh(8)
        /\ batteries[robots[r].battery].current_charge < KWh(10)

\* C35: in every state between events, every idle robot is exactly at a
\* charging station, so that its nearest station is its own position and the
\* trip back from there costs nothing.
C35_IdleRobotIsAtStation ==
    \A r \in RobotIds :
        robots[r].status = "idle"
           => /\ IsStation(robots[r].position)
              /\ find_nearest_charging_station(robots[r].position) = robots[r].position
              /\ battery_needed_for_trip(robots[r].position,
                                         find_nearest_charging_station(robots[r].position)) = 0

\* A vehicle has been under charge and every robot, the one that charged it
\* included, is idle again.
C35_Witness ==
    /\ \A r \in RobotIds : robots[r].status = "idle"
    /\ \E v \in arrived : vehicles[v].charging_start_time # None

\* C36: a returning robot becomes idle after finitely many update_status
\* ticks. Every tick either turns it idle, or brings it nearer to its nearest
\* station, or, at the station with less than 10 kWh, gives it a battery of
\* more than 45 kWh with which the next tick turns it idle; and so, while run()
\* goes on handling events, a returning robot is idle at some later point.
C36_ReturningRobotTurnsIdle ==
    /\ [][Handles("update_status") =>
             \A r \in RobotIds :
                 robots[r].status = "returning" =>
                    LET p == robots[r].position
                        station == find_nearest_charging_station(p)
                    IN  /\ robots[r].battery # None
                        /\ \/ robots'[r].status = "idle"
                           \/ /\ p # station
                              /\ robots'[r].status = "returning"
                              /\ distance_to(robots'[r].position, station)
                                    = Max(0, distance_to(p, station) - Speed)
                           \/ /\ p = station
                              /\ batteries[robots[r].battery].current_charge < KWh(10)
                              /\ robots'[r].status = "returning"
                              /\ robots'[r].position = p
                              /\ robots'[r].battery # None
                              /\ batteries'[robots'[r].battery].current_charge > KWh(45)]_vars
    /\ \A r \in RobotIds :
          (robots[r].status = "returning")
             ~> (robots[r].status = "idle" \/ phase = "done")

\* A returning robot has reached its station with a low battery and holds a
\* fresh one there, one tick before it turns idle.
C36_Witness ==
    \E r \in RobotIds :
        /\ robots[r].status = "returning"
        /\ IsStation(robots[r].position)
        /\ robots[r].battery # None
        /\ batteries[robots[r].battery].current_charge > KWh(45)
        /\ stats.battery_swaps > 0

PushedEvents ==
    {events'[i] : i \in 1 .. Len(events')} \ {events[i] : i \in 1 .. Len(events)}

\* C38: between events the heap holds exactly one pending event of each
\* periodic kind, with a timestamp not before the clock; every event a handler
\* pushes has a timestamp not before the clock at the push; and the clock
\* never decreases.
C38_HeapKeepsAhead ==
    /\ [](\A kind \in PeriodicKinds :
              /\ Cardinality(PendingOf(kind)) = 1
              /\ \A i \in PendingOf(kind) : events[i].time >= current_time)
    /\ [][\A e \in PushedEvents : e.time >= current_time']_vars
    /\ [][current_time' >= current_time]_vars

\* The clock has moved on to a minute whose assign_tasks event is handled and
\* pushed again two minutes ahead, while the update_status and
\* update_priorities events of the clock's own minute are still pending, and
\* so is a departure pushed by an arrival.
C38_Witness ==
    /\ current_time > 0
    /\ phase = "running"
    /\ \E v \in arrived : DeparturePending(v) /\ vehicles[v].arrival_time > 0
    /\ \E i \in PendingOf("assign_tasks") : events[i].time = current_time + 2
    /\ \E i \in PendingOf("update_status") : events[i].time = current_time
    /\ \E i \in PendingOf("update_priorities") : events[i].time = current_time

C40_RewardsAndQValuesNotPositive ==
    /\ \A i \in 1 .. Len(q_rewards) : q_rewards[i] <= 0
    /\ \A e \in q_table : e.q <= 0

\* An assignment has been rewarded by calculate_reward, below zero for the
\* distance, a penalty has been passed in the same call, and the table holds
\* a negative entry.
C40_Witness ==
    /\ scheduling_strategy = "rl"
    /\ \E i \in 1 .. Len(q_rewards) :
          q_rewards[i] < 0 /\ q_rewards[i] \notin {Reward(0 - 5), Reward(0 - 8)}
    /\ \E i \in 1 .. Len(q_rewards) : q_rewards[i] \in {Reward(0 - 5), Reward(0 - 8)}
    /\ \E e \in q_table : e.q < 0
    /\ \E v \in arrived : vehicles[v].status = "assigned"

====
